---- MODULE Spec2Model ----
(***************************************************************************)
(* Model of the chart utilities of src/app/utils/router.ts: the weekly      *)
(* buckets (sum, chunkIntoWeeks, buildWeeklyEvolutionFromDaily) and the     *)
(* statistics and interpretation (clamp, quantile, winsorize,              *)
(* computeLineChartAnalysis).                                              *)
(*                                                                         *)
(* Numbers.  The TypeScript code computes in IEEE doubles.  The model      *)
(* computes in exact rational arithmetic: a number is a pair <<num, den>>  *)
(* with den > 0 in lowest terms.  Math.sqrt is the only irrational step;   *)
(* its result is kept as a signed root <<sign, sq>> that stands for         *)
(* sign * sqrt(sq), so that every comparison the code makes on it is       *)
(* decided exactly.  Inputs are integers (download counts), for which the  *)
(* sums of the code are exact in doubles as well.                          *)
(*                                                                         *)
(* The quotients, products and roots of the analysis are not exact in      *)
(* doubles.  A second computation of computeLineChartAnalysis therefore    *)
(* follows the same lines in IEEE 754 binary64, every operation rounded to *)
(* nearest, ties to even; its definitions end in 64.                       *)
(***************************************************************************)
EXTENDS Integers, Sequences, FiniteSets, TLC

VARIABLES values, pc, result, regression, fn, args, allocated, returned, locals,
          copyCalls, copyPromise, promise,
          posts, pds, pending, results, documentsToSync,
          index

\* config.copy: the texts it was called with and the promise it returned;
\* promise is the one the async function returned.
copyVars == <<copyCalls, copyPromise, promise>>

\* The blog sync: the frontmatter of the blog files, the records of the
\* document collection on the PDS, the files of the batch whose syncFile has
\* not returned, what the others returned, and documentsToSync.
syncVars == <<posts, pds, pending, results, documentsToSync>>

vars == <<values, pc, result, regression, fn, args, allocated, returned, locals,
          copyVars, syncVars, index>>

\* The missing entry of Array<number | null> (null or undefined).
NULL == <<>>

-----------------------------------------------------------------------------
(* Exact rational arithmetic standing for the JavaScript number operators. *)

Abs(a) == IF a < 0 THEN -a ELSE a

RECURSIVE GCD(_, _)
GCD(a, b) == IF b = 0 THEN a ELSE GCD(b, a % b)

Rat(a, b) ==
  LET g == GCD(Abs(a), Abs(b))
      s == IF b < 0 THEN -1 ELSE 1
  IN  <<(s * a) \div g, (s * b) \div g>>

R(a) == <<a, 1>>

Zero == R(0)

LCM(a, b) == (a \div GCD(a, b)) * b

\* Equal denominators need no common multiple.
RAdd(p, q) ==
  IF p[2] = q[2] THEN Rat(p[1] + q[1], p[2])
  ELSE LET l == LCM(p[2], q[2])
       IN  Rat(p[1] * (l \div p[2]) + q[1] * (l \div q[2]), l)

RNeg(p) == <<-p[1], p[2]>>

RSub(p, q) == RAdd(p, RNeg(q))

RMul(p, q) ==
  LET g1 == GCD(Abs(p[1]), q[2])
      g2 == GCD(Abs(q[1]), p[2])
  IN  Rat((p[1] \div g1) * (q[1] \div g2), (p[2] \div g2) * (q[2] \div g1))

RSign(p) == IF p[1] > 0 THEN 1 ELSE IF p[1] < 0 THEN -1 ELSE 0

\* p / q.  A division by 0 gives a value that is not finite, written with
\* denominator 0: <<1, 0>> and <<-1, 0>> for the infinities, <<0, 0>> for NaN.
RDiv(p, q) == IF q[1] = 0 THEN <<RSign(p), 0>> ELSE RMul(p, Rat(q[2], q[1]))

RLt(p, q) == p[1] * q[2] < q[1] * p[2]

RLe(p, q) == p[1] * q[2] <= q[1] * p[2]

RAbs(p) == <<Abs(p[1]), p[2]>>

\* Math.floor and Math.ceil of a rational, as integers.
Floor(p) == p[1] \div p[2]

Ceil(p) == -((-p[1]) \div p[2])

\* Math.sqrt(p) for p >= 0, kept as the signed root <<sign, sq>> that stands
\* for sign * sqrt(sq).
Sqrt(p) == <<RSign(p), p>>

RootSign(s) == s[1]

RootSq(s) == s[2]

\* s / m for a signed root s and a rational m # 0.
RootDiv(s, m) == <<RootSign(s) * RSign(m), RDiv(RootSq(s), RMul(m, m))>>

\* s < t for a signed root s and a rational t > 0.
RootLt(s, t) == RootSign(s) <= 0 \/ RLt(RootSq(s), RMul(t, t))

\* s <= t for a signed root s and a rational t > 0.
RootLe(s, t) == RootSign(s) <= 0 \/ RLe(RootSq(s), RMul(t, t))

RootZero == Sqrt(Zero)

\* d * d.
Sq(d) == RMul(d, d)

RECURSIVE sum(_)
sum(numbers) ==
  IF numbers = <<>> THEN Zero
  ELSE RAdd(sum(SubSeq(numbers, 1, Len(numbers) - 1)), numbers[Len(numbers)])

-----------------------------------------------------------------------------
(* chunkIntoWeeks, buildWeeklyEvolutionFromDaily                           *)

\* items.slice(start, end): the elements at the 0-based positions
\* start .. end - 1 that exist; a negative argument counts from the end of
\* the array.
slice(items, start, end) ==
  LET from(k) == IF k < 0 THEN (IF Len(items) + k < 0 THEN 0 ELSE Len(items) + k)
                 ELSE IF k < Len(items) THEN k ELSE Len(items)
  IN  SubSeq(items, from(start) + 1, from(end))

\* Line 58: the chunk pushed by the iteration at `at`.
chunkAt(items, weekSize, at) == slice(items, at, at + weekSize)

\* Slip: the index advances by 1 whatever the week size.
nextIndex_ByOne(at, weekSize) == at + 1

\* Line 57: index += weekSize.
nextIndex(at, weekSize) == at + weekSize

\* Lines 57-59: the loop from `at` on; chunks is `result` so far.
RECURSIVE chunkLoop(_, _, _, _)
chunkLoop(items, weekSize, at, chunks) ==
  IF at < Len(items)
  THEN chunkLoop(items, weekSize, nextIndex(at, weekSize),
                 Append(chunks, chunkAt(items, weekSize, at)))
  ELSE chunks

\* Slip: a last chunk shorter than weekSize is not pushed.
chunkIntoWeeks_DropPartial(items, weekSize) ==
  SelectSeq(chunkLoop(items, weekSize, 0, <<>>), LAMBDA c : Len(c) = weekSize)

\* Lines 55-61.
chunkIntoWeeks(items, weekSize) == chunkLoop(items, weekSize, 0, <<>>)

\* Line 66: the size of a week.
DaysPerWeek == 7

\* Slip: weekEnd is read at index weekDays.length, one past the last day.
weekOf_EndPastLast(weekDays) ==
  [weekStart |-> IF Len(weekDays) > 0 THEN weekDays[1].day ELSE "",
   weekEnd   |-> "",
   downloads |-> sum([d \in 1..Len(weekDays) |-> weekDays[d].downloads])]

\* Lines 67-72: the bucket of one chunk.
weekOf(weekDays) ==
  [weekStart |-> IF Len(weekDays) > 0 THEN weekDays[1].day ELSE "",
   weekEnd   |-> IF Len(weekDays) > 0 THEN weekDays[Len(weekDays)].day ELSE "",
   downloads |-> sum([d \in 1..Len(weekDays) |-> weekDays[d].downloads])]

\* Lines 63-73.
buildWeeklyEvolutionFromDaily(daily) ==
  LET weeks == chunkIntoWeeks(daily, DaysPerWeek)
  IN  [w \in 1..Len(weeks) |-> weekOf(weeks[w])]

-----------------------------------------------------------------------------
(* clamp, quantile, winsorize                                              *)

\* Lines 83-87.
clamp(value, minValue, maxValue) ==
  IF RLt(value, minValue) THEN minValue
  ELSE IF RLt(maxValue, value) THEN maxValue
  ELSE value

\* quantile with the weight taken as the distance to the upper index.
quantileWeightFromUpper(sortedValues, quantileValue) ==
  LET length == Len(sortedValues)
  IN  IF length = 0 THEN Zero
      ELSE IF RLe(quantileValue, Zero) THEN sortedValues[1]
      ELSE IF RLe(R(1), quantileValue) THEN sortedValues[length]
      ELSE LET position   == RMul(R(length - 1), quantileValue)
               lowerIndex == Floor(position)
               upperIndex == Ceil(position)
               weight     == RSub(R(upperIndex), position)
               lower      == sortedValues[lowerIndex + 1]
               upper      == sortedValues[upperIndex + 1]
           IN  RAdd(lower, RMul(RSub(upper, lower), weight))

\* Slip: q >= 1 returns the element at index `length`, one past the last,
\* which is undefined and read as 0.
quantile_LastPastEnd(sortedValues, quantileValue) ==
  LET length == Len(sortedValues)
  IN  IF length = 0 THEN Zero
      ELSE IF RLe(quantileValue, Zero) THEN sortedValues[1]
      ELSE IF RLe(R(1), quantileValue) THEN Zero
      ELSE LET position   == RMul(R(length - 1), quantileValue)
               lowerIndex == Floor(position)
               upperIndex == Ceil(position)
               weight     == RSub(position, R(lowerIndex))
               lower      == sortedValues[lowerIndex + 1]
               upper      == sortedValues[upperIndex + 1]
           IN  RAdd(lower, RMul(RSub(upper, lower), weight))

\* Lines 116-139.
quantile(sortedValues, quantileValue) ==
  LET length == Len(sortedValues)
  IN  IF length = 0 THEN Zero
      ELSE IF RLe(quantileValue, Zero) THEN sortedValues[1]
      ELSE IF RLe(R(1), quantileValue) THEN sortedValues[length]
      ELSE LET position   == RMul(R(length - 1), quantileValue)
               lowerIndex == Floor(position)
               upperIndex == Ceil(position)
               weight     == RSub(position, R(lowerIndex))
               lower      == sortedValues[lowerIndex + 1]
               upper      == sortedValues[upperIndex + 1]
           IN  RAdd(lower, RMul(RSub(upper, lower), weight))

\* values.toSorted((a, b) => a - b): an ascending copy.
RECURSIVE Insert(_, _)
Insert(s, v) ==
  IF s = <<>> THEN <<v>>
  ELSE IF RLt(v, s[1]) THEN <<v>> \o s
  ELSE <<s[1]>> \o Insert(Tail(s), v)

RECURSIVE toSorted(_)
toSorted(s) ==
  IF s = <<>> THEN <<>>
  ELSE Insert(toSorted(SubSeq(s, 1, Len(s) - 1)), s[Len(s)])

\* Slip: the sorted copy is mapped, so the values come back in sorted order.
winsorize_MapsSorted(vals, lowerQuantile, upperQuantile) ==
  LET sorted     == toSorted(vals)
      lowerBound == quantile(sorted, lowerQuantile)
      upperBound == quantile(sorted, upperQuantile)
  IN  [i \in 1..Len(sorted) |-> clamp(sorted[i], lowerBound, upperBound)]

\* Lines 160-169.
winsorize(vals, lowerQuantile, upperQuantile) ==
  LET sorted     == toSorted(vals)
      lowerBound == quantile(sorted, lowerQuantile)
      upperBound == quantile(sorted, upperQuantile)
  IN  [i \in 1..Len(vals) |-> clamp(vals[i], lowerBound, upperBound)]

-----------------------------------------------------------------------------
(* computeLineChartAnalysis                                                *)

\* Number of valid points from which the regression values are winsorized.
WinsorizeMinPoints == 20

LowerQuantile == Rat(5, 100)
UpperQuantile == Rat(95, 100)

VeryStableBelow == Rat(1, 10)
ModerateBelow   == Rat(25, 100)
StrongAbove     == Rat(75, 100)
WeakAbove       == Rat(4, 10)
UpgradeToWeak   == Rat(3, 100)
UpgradeToStrong == Rat(6, 100)

IsValid(e) == e.value # NULL

\* Slip: the position within the filtered entries is stored as the index.
indexedValuesOf_Compacted(vals) ==
  LET all   == [i \in 1..Len(vals) |-> [value |-> vals[i], index |-> i - 1]]
      valid == SelectSeq(all, IsValid)
  IN  [k \in 1..Len(valid) |-> [value |-> valid[k].value, index |-> k - 1]]

\* Slip: a missing entry is read as 0 (v ?? 0) and kept.
indexedValuesOf_NullAsZero(vals) ==
  [i \in 1..Len(vals) |->
     [value |-> IF vals[i] = NULL THEN Zero ELSE vals[i], index |-> i - 1]]

\* Lines 220-226: the non-missing entries with their 0-based positions.
indexedValuesOf(vals) ==
  LET all == [i \in 1..Len(vals) |-> [value |-> vals[i], index |-> i - 1]]
  IN  SelectSeq(all, IsValid)

\* Slip: > in place of >= at the winsorization threshold.
winsorizedYValuesOf_Above(originalYValues) ==
  IF Len(originalYValues) > WinsorizeMinPoints
  THEN winsorize(originalYValues, LowerQuantile, UpperQuantile)
  ELSE originalYValues

\* Lines 274-290: the y-values the regression is fitted on.
winsorizedYValuesOf(originalYValues) ==
  IF Len(originalYValues) >= WinsorizeMinPoints
  THEN winsorize(originalYValues, LowerQuantile, UpperQuantile)
  ELSE originalYValues

\* Slip: <= in place of < at both thresholds.
volatilityOf_Inclusive(coefficientOfVariation) ==
  IF coefficientOfVariation = NULL THEN "undefined"
  ELSE IF RootLe(coefficientOfVariation, VeryStableBelow) THEN "very_stable"
  ELSE IF RootLe(coefficientOfVariation, ModerateBelow) THEN "moderate"
  ELSE "volatile"

\* Slip: the thresholds are applied to the absolute value.
volatilityOf_Absolute(coefficientOfVariation) ==
  IF coefficientOfVariation = NULL THEN "undefined"
  ELSE IF RLt(RootSq(coefficientOfVariation), Sq(VeryStableBelow)) THEN "very_stable"
  ELSE IF RLt(RootSq(coefficientOfVariation), Sq(ModerateBelow)) THEN "moderate"
  ELSE "volatile"

\* Lines 340-346.
volatilityOf(coefficientOfVariation) ==
  IF coefficientOfVariation = NULL THEN "undefined"
  ELSE IF RootLt(coefficientOfVariation, VeryStableBelow) THEN "very_stable"
  ELSE IF RootLt(coefficientOfVariation, ModerateBelow) THEN "moderate"
  ELSE "volatile"

\* Lines 348-351.
robustMeanYOf(winsorizedYValues) ==
  IF Len(winsorizedYValues) > 0
  THEN RDiv(sum(winsorizedYValues), R(Len(winsorizedYValues)))
  ELSE Zero

\* Slip: the slope is normalised by the sum of the values, not their mean.
relativeSlopeOf_BySum(slope, winsorizedYValues) ==
  LET total == sum(winsorizedYValues)
  IN  IF total = Zero THEN Zero ELSE RDiv(RAbs(slope), total)

\* Slip: the division by robustMeanY is not guarded.
relativeSlopeOf_Unguarded(slope, winsorizedYValues) ==
  RDiv(RAbs(slope), robustMeanYOf(winsorizedYValues))

\* Lines 348-352.
relativeSlopeOf(slope, winsorizedYValues) ==
  LET robustMeanY == robustMeanYOf(winsorizedYValues)
  IN  IF robustMeanY = Zero THEN Zero ELSE RDiv(RAbs(slope), robustMeanY)

\* Slip: >= in place of > at the rSquared threshold of 'strong'.
trendOf_StrongAtBoundary(standardDeviation, rSquared, relativeSlope) ==
  IF standardDeviation = RootZero THEN "none"
  ELSE IF rSquared # NULL
  THEN LET base == IF RLe(StrongAbove, rSquared) THEN "strong"
                   ELSE IF RLt(WeakAbove, rSquared) THEN "weak"
                   ELSE "none"
       IN  IF base = "none"
           THEN (IF RLe(UpgradeToWeak, relativeSlope) THEN "weak" ELSE "none")
           ELSE IF base = "weak"
           THEN (IF RLe(UpgradeToStrong, relativeSlope) THEN "strong" ELSE "weak")
           ELSE base
  ELSE "undefined"

\* Slip: two independent ifs in place of if / else if, so that a trend just
\* upgraded to 'weak' is upgraded again.
trendOf_Cascade(standardDeviation, rSquared, relativeSlope) ==
  IF standardDeviation = RootZero THEN "none"
  ELSE IF rSquared # NULL
  THEN LET base  == IF RLt(StrongAbove, rSquared) THEN "strong"
                    ELSE IF RLt(WeakAbove, rSquared) THEN "weak"
                    ELSE "none"
           first == IF base = "none" /\ RLe(UpgradeToWeak, relativeSlope)
                    THEN "weak" ELSE base
       IN  IF first = "weak" /\ RLe(UpgradeToStrong, relativeSlope)
           THEN "strong" ELSE first
  ELSE "undefined"

\* Slip: the absent rSquared is tested before the zero deviation.
trendOf_RSquaredFirst(standardDeviation, rSquared, relativeSlope) ==
  IF rSquared = NULL THEN "undefined"
  ELSE IF standardDeviation = RootZero THEN "none"
  ELSE LET base == IF RLt(StrongAbove, rSquared) THEN "strong"
                   ELSE IF RLt(WeakAbove, rSquared) THEN "weak"
                   ELSE "none"
       IN  IF base = "none"
           THEN (IF RLe(UpgradeToWeak, relativeSlope) THEN "weak" ELSE "none")
           ELSE IF base = "weak"
           THEN (IF RLe(UpgradeToStrong, relativeSlope) THEN "strong" ELSE "weak")
           ELSE base

\* Slip: an absent rSquared gives 'none' in place of 'undefined'.
trendOf_AbsentIsNone(standardDeviation, rSquared, relativeSlope) ==
  IF standardDeviation = RootZero THEN "none"
  ELSE IF rSquared # NULL
  THEN LET base == IF RLt(StrongAbove, rSquared) THEN "strong"
                   ELSE IF RLt(WeakAbove, rSquared) THEN "weak"
                   ELSE "none"
       IN  IF base = "none"
           THEN (IF RLe(UpgradeToWeak, relativeSlope) THEN "weak" ELSE "none")
           ELSE IF base = "weak"
           THEN (IF RLe(UpgradeToStrong, relativeSlope) THEN "strong" ELSE "weak")
           ELSE base
  ELSE "none"

\* Lines 354-372.
trendOf(standardDeviation, rSquared, relativeSlope) ==
  IF standardDeviation = RootZero THEN "none"
  ELSE IF rSquared # NULL
  THEN LET base == IF RLt(StrongAbove, rSquared) THEN "strong"
                   ELSE IF RLt(WeakAbove, rSquared) THEN "weak"
                   ELSE "none"
       IN  IF base = "none"
           THEN (IF RLe(UpgradeToWeak, relativeSlope) THEN "weak" ELSE "none")
           ELSE IF base = "weak"
           THEN (IF RLe(UpgradeToStrong, relativeSlope) THEN "strong" ELSE "weak")
           ELSE base
  ELSE "undefined"

\* Slip: the zero check is made on the standard deviation.
coefficientOfVariationOf_SdGuard(mean, standardDeviation) ==
  IF standardDeviation = RootZero THEN NULL ELSE RootDiv(standardDeviation, mean)

\* Line 272.
coefficientOfVariationOf(mean, standardDeviation) ==
  IF mean = Zero THEN NULL ELSE RootDiv(standardDeviation, mean)

\* Slip: the zero check is made on the residual sum of squares.
rSquaredOf_ResidualGuard(denominator, ssTotal, ssResidual) ==
  IF denominator # Zero /\ ssResidual # Zero
  THEN RSub(R(1), RDiv(ssResidual, ssTotal))
  ELSE NULL

\* Lines 314-338: rSquared from the two sums of squares.
rSquaredOf(denominator, ssTotal, ssResidual) ==
  IF denominator # Zero /\ ssTotal # Zero
  THEN RSub(R(1), RDiv(ssResidual, ssTotal))
  ELSE NULL

(* The body of the n >= 2 case, one operator per group of declarations.  Each *)
(* takes the record l of the locals declared so far and adds its own.         *)

\* Lines 259-263.
withMean(l) ==
  l @@ [mean |-> RDiv(sum(l.originalYValues), R(l.n))]

\* Slip: the sample deviation, with divisor n - 1.
withStandardDeviation_Sample(l) ==
  l @@ [standardDeviation |->
          Sqrt(RDiv(sum([i \in 1..l.n |-> Sq(RSub(l.originalYValues[i], l.mean))]),
                    R(l.n - 1)))]

\* Lines 265-270.
withStandardDeviation(l) ==
  l @@ [standardDeviation |->
          Sqrt(RDiv(sum([i \in 1..l.n |-> Sq(RSub(l.originalYValues[i], l.mean))]),
                    R(l.n)))]

\* Line 272.
withCoefficientOfVariation(l) ==
  l @@ [coefficientOfVariation |-> coefficientOfVariationOf(l.mean, l.standardDeviation)]

\* Lines 274-290.
withWinsorizedYValues(l) ==
  l @@ [winsorizedYValues |-> winsorizedYValuesOf(l.originalYValues)]

\* Slip: sumXX accumulates x in place of x * x.
withSums_XXNotSquared(l) ==
  l @@ [sumX  |-> sum([i \in 1..l.n |-> R(l.indexedValues[i].index)]),
        sumY  |-> sum([i \in 1..l.n |-> l.winsorizedYValues[i]]),
        sumXY |-> sum([i \in 1..l.n |->
                         RMul(R(l.indexedValues[i].index), l.winsorizedYValues[i])]),
        sumXX |-> sum([i \in 1..l.n |-> R(l.indexedValues[i].index)])]

\* Lines 292-309.
withSums(l) ==
  l @@ [sumX  |-> sum([i \in 1..l.n |-> R(l.indexedValues[i].index)]),
        sumY  |-> sum([i \in 1..l.n |-> l.winsorizedYValues[i]]),
        sumXY |-> sum([i \in 1..l.n |->
                         RMul(R(l.indexedValues[i].index), l.winsorizedYValues[i])]),
        sumXX |-> sum([i \in 1..l.n |-> Sq(R(l.indexedValues[i].index))])]

\* Line 311.
withDenominator(l) ==
  l @@ [denominator |-> RSub(RMul(R(l.n), l.sumXX), Sq(l.sumX))]

\* Line 312.
withSlope(l) ==
  l @@ [slope |-> IF l.denominator = Zero THEN Zero
                  ELSE RDiv(RSub(RMul(R(l.n), l.sumXY), RMul(l.sumX, l.sumY)),
                            l.denominator)]

\* Slip: the intercept is the mean of y, without the slope term.
withIntercept_NoSlopeTerm(l) ==
  l @@ [meanY     |-> RDiv(l.sumY, R(l.n)),
        intercept |-> RDiv(l.sumY, R(l.n))]

\* Lines 317-318 (read only when denominator # 0).
withIntercept(l) ==
  l @@ [meanY     |-> RDiv(l.sumY, R(l.n)),
        intercept |-> RDiv(RSub(l.sumY, RMul(l.slope, l.sumX)), R(l.n))]

\* Lines 320-333 (read only when denominator # 0).
withSquares(l) ==
  l @@ [ssTotal    |-> sum([i \in 1..l.n |-> Sq(RSub(l.winsorizedYValues[i], l.meanY))]),
        ssResidual |->
          sum([i \in 1..l.n |->
                 Sq(RSub(l.winsorizedYValues[i],
                         RAdd(RMul(l.slope, R(l.indexedValues[i].index)), l.intercept)))])]

\* Lines 314-338.
withRSquared(l) ==
  l @@ [rSquared |-> rSquaredOf(l.denominator, l.ssTotal, l.ssResidual)]

\* Lines 340-346.
withVolatility(l) ==
  l @@ [volatility |-> volatilityOf(l.coefficientOfVariation)]

\* Lines 348-352.
withRelativeSlope(l) ==
  l @@ [robustMeanY   |-> robustMeanYOf(l.winsorizedYValues),
        relativeSlope |-> relativeSlopeOf(l.slope, l.winsorizedYValues)]

\* Lines 354-372.
withTrend(l) ==
  l @@ [trend |-> trendOf(l.standardDeviation, l.rSquared, l.relativeSlope)]

\* Lines 230-242: no valid entry.
emptyAnalysis(indexedValues) ==
  [n |-> 0, indexedValues |-> indexedValues,
   mean |-> Zero, standardDeviation |-> RootZero,
   coefficientOfVariation |-> NULL, slope |-> Zero, rSquared |-> NULL,
   volatility |-> "undefined", trend |-> "undefined"]

\* Lines 244-257: one valid entry.
singleAnalysis(indexedValues) ==
  [n |-> 1, indexedValues |-> indexedValues,
   mean |-> indexedValues[1].value, standardDeviation |-> RootZero,
   coefficientOfVariation |-> NULL, slope |-> Zero, rSquared |-> NULL,
   volatility |-> "very_stable", trend |-> "none"]

\* Lines 259-372: two or more valid entries.
fullAnalysis(indexedValues) ==
  withTrend(withRelativeSlope(withVolatility(
    withRSquared(withSquares(withIntercept(withSlope(withDenominator(withSums(
      withWinsorizedYValues(
        withCoefficientOfVariation(withStandardDeviation(withMean(
          [n |-> Len(indexedValues), indexedValues |-> indexedValues,
           originalYValues |->
             [i \in 1..Len(indexedValues) |-> indexedValues[i].value]]
        )))))))))))))

\* Slip: the n === 1 case is missing and a single entry takes the general path.
analysisByCount_NoSingle(indexedValues) ==
  IF Len(indexedValues) = 0 THEN emptyAnalysis(indexedValues)
  ELSE fullAnalysis(indexedValues)

\* Lines 228-257: the three cases of the number n of valid entries.
analysisByCount(indexedValues) ==
  IF Len(indexedValues) = 0 THEN emptyAnalysis(indexedValues)
  ELSE IF Len(indexedValues) = 1 THEN singleAnalysis(indexedValues)
  ELSE fullAnalysis(indexedValues)

\* Lines 219-372: the locals at the return statement.
analysisOf(vals) == analysisByCount(indexedValuesOf(vals))

\* Lines 374-456: the object the call returns.
returnedObject(l) ==
  [mean |-> l.mean, standardDeviation |-> l.standardDeviation,
   coefficientOfVariation |-> l.coefficientOfVariation,
   slope |-> l.slope, rSquared |-> l.rSquared,
   interpretation |-> [volatility |-> l.volatility, trend |-> l.trend]]

computeLineChartAnalysis(vals) == returnedObject(analysisOf(vals))

-----------------------------------------------------------------------------
(***************************************************************************)
(* The numbers of the running code are IEEE 754 doubles.  This section     *)
(* computes in them: a double is sign * m * 2^e with a mantissa m of       *)
(* MantissaBits bits, and every operation is the exact result rounded to   *)
(* the nearest double, ties to the even mantissa.  Mantissas do not fit    *)
(* the model checker's integers, so a natural number is held as its limbs  *)
(* of LimbBits bits, least significant first (<<>> is zero).  Exponents    *)
(* are unbounded: the values met here are far from overflow and from the   *)
(* subnormal range.  The operations are functions, not operators: TLC      *)
(* evaluates the argument of a function before it applies it, which keeps  *)
(* the evaluation of a long computation shallow.                           *)
(***************************************************************************)
LimbBits == 14

LimbBase == 2^LimbBits

MantissaBits == 53

Limbs == Seq(Int)

Pow2(k) ==
  <<1, 2, 4, 8, 16, 32, 64, 128, 256, 512, 1024, 2048, 4096, 8192, 16384>>[k + 1]

\* the number of bits of a limb
BitLenSmall(n) ==
  CHOOSE k \in 0..LimbBits : n < Pow2(k) /\ (k = 0 \/ n >= Pow2(k - 1))

NLimb(a, i) == IF i >= 1 /\ i <= Len(a) THEN a[i] ELSE 0

\* without the zero limbs at the top
NNorm[a \in Limbs] ==
  SubSeq(a, 1, IF \A i \in DOMAIN a : a[i] = 0 THEN 0
               ELSE CHOOSE i \in DOMAIN a :
                      a[i] # 0 /\ \A j \in (i + 1)..Len(a) : a[j] = 0)

\* a number below 2^31 as limbs, and back
NFromInt[n \in Nat] ==
  NNorm[<<n % LimbBase, (n \div LimbBase) % LimbBase, n \div (LimbBase * LimbBase)>>]

NToInt(a) == NLimb(a, 1) + LimbBase * NLimb(a, 2) + LimbBase * LimbBase * NLimb(a, 3)

\* a carry enters limb i when a limb below overflows and every limb between
\* is full
NCarry(s, i) ==
  \E j \in 1..(i - 1) :
    s[j] >= LimbBase /\ \A k \in (j + 1)..(i - 1) : s[k] = LimbBase - 1

\* the number whose limbs, before the carries, are s (each below 2 * LimbBase)
NAddSums[s \in Limbs] ==
  NNorm[[i \in 1..Len(s) |-> (s[i] + (IF NCarry(s, i) THEN 1 ELSE 0)) % LimbBase]]

NAdd[a \in Limbs, b \in Limbs] ==
  NAddSums[[i \in 1..((IF Len(a) > Len(b) THEN Len(a) ELSE Len(b)) + 1) |->
              NLimb(a, i) + NLimb(b, i)]]

NBorrow(d, i) ==
  \E j \in 1..(i - 1) : d[j] < 0 /\ \A k \in (j + 1)..(i - 1) : d[k] = 0

NSubDiffs[d \in Limbs] ==
  NNorm[[i \in 1..Len(d) |->
          (d[i] - (IF NBorrow(d, i) THEN 1 ELSE 0) + LimbBase) % LimbBase]]

\* a - b for a >= b
NSub[a \in Limbs, b \in Limbs] == NSubDiffs[[i \in 1..Len(a) |-> a[i] - NLimb(b, i)]]

\* -1, 0 or 1, for numbers without zero limbs at the top
NCmp[a \in Limbs, b \in Limbs] ==
  IF Len(a) > Len(b) THEN 1
  ELSE IF Len(a) < Len(b) THEN -1
  ELSE IF a = b THEN 0
  ELSE IF \E i \in DOMAIN a :
            a[i] > b[i] /\ \A j \in (i + 1)..Len(a) : a[j] = b[j]
  THEN 1
  ELSE -1

\* a * k for a limb k (or LimbBase itself)
NMulSmall[a \in Limbs, k \in Nat] ==
  NAdd[[i \in 1..Len(a) |-> (a[i] * k) % LimbBase],
       <<0>> \o [i \in 1..Len(a) |-> (a[i] * k) \div LimbBase]]

NShlLimbs(a, k) == IF a = <<>> THEN <<>> ELSE [i \in 1..k |-> 0] \o a

\* column k of the long multiplication of two numbers of at most 4 limbs
NColumn(a, b, k) ==
  NLimb(a, 1) * NLimb(b, k) + NLimb(a, 2) * NLimb(b, k - 1)
  + NLimb(a, 3) * NLimb(b, k - 2) + NLimb(a, 4) * NLimb(b, k - 3)

NMulColumns[c \in Limbs] ==
  NAdd[NAdd[[k \in 1..Len(c) |-> c[k] % LimbBase],
            <<0>> \o [k \in 1..Len(c) |-> (c[k] \div LimbBase) % LimbBase]],
       <<0, 0>> \o [k \in 1..Len(c) |-> c[k] \div (LimbBase * LimbBase)]]

\* a * b for numbers of at most 4 limbs (a mantissa has 4)
NMul[a \in Limbs, b \in Limbs] ==
  NMulColumns[[k \in 1..(Len(a) + Len(b)) |-> NColumn(a, b, k)]]

NShl[a \in Limbs, k \in Nat] ==
  NShlLimbs(NMulSmall[a, Pow2(k % LimbBits)], k \div LimbBits)

NShr[a \in Limbs, k \in Nat] ==
  IF k \div LimbBits >= Len(a) THEN <<>>
  ELSE NNorm[[i \in 1..(Len(a) - k \div LimbBits) |->
               (a[i + k \div LimbBits] \div Pow2(k % LimbBits))
               + (NLimb(a, i + k \div LimbBits + 1) % Pow2(k % LimbBits))
                 * Pow2(LimbBits - (k % LimbBits))]]

NBitLen(a) ==
  IF a = <<>> THEN 0 ELSE LimbBits * (Len(a) - 1) + BitLenSmall(a[Len(a)])

NIsOdd(a) == a # <<>> /\ a[1] % 2 = 1

\* the digit d with d * D <= r < (d + 1) * D, for r < LimbBase * D and a
\* divisor whose top limb has its top bit set: the quotient of the top limbs,
\* top, is at most 2 too large
NDigitNear[r \in Limbs, D \in Limbs, top \in Nat] ==
  IF NCmp[NMulSmall[D, top], r] <= 0 THEN top
  ELSE IF NCmp[NMulSmall[D, top - 1], r] <= 0 THEN top - 1
  ELSE top - 2

NDigitTop(r, D, top) ==
  NDigitNear[r, D, IF top >= LimbBase THEN LimbBase - 1 ELSE top]

NDigit(r, D) ==
  NDigitTop(r, D,
            (NLimb(r, Len(D) + 1) * LimbBase + NLimb(r, Len(D))) \div D[Len(D)])

\* long division, one limb of A at a time from the top: r is what is left
\* with limb i of A brought down, d its digit, q the digits found before
NDivFrom[A \in Limbs, D \in Limbs, i \in Nat, q \in Limbs, r \in Limbs] ==
  LET NDivNext[d \in Nat] ==
        IF i = 1
        THEN [q |-> NNorm[<<d>> \o q], r |-> NSub[r, NMulSmall[D, d]]]
        ELSE NDivFrom[A, D, i - 1, <<d>> \o q,
                      NNorm[<<A[i - 1]>> \o NSub[r, NMulSmall[D, d]]]]
  IN  NDivNext[NDigit(r, D)]

NDivLong[A \in Limbs, D \in Limbs] ==
  IF Len(A) < Len(D) THEN [q |-> <<>>, r |-> A]
  ELSE NDivFrom[A, D, Len(A) - Len(D) + 1, <<>>,
                SubSeq(A, Len(A) - Len(D) + 1, Len(A))]

NDivShifted(A, D, s) == NDivLong[NShl[A, s], NShl[D, s]]

\* the quotient q of A by D; r is zero exactly when the division leaves nothing
NDivMod(A, D) == NDivShifted(A, D, LimbBits - BitLenSmall(D[Len(D)]))

\* Newton's iteration from above, down to the integer part of the square root
NSqrtFrom[N \in Limbs, x \in Limbs, y \in Limbs] ==
  IF NCmp[y, x] >= 0 THEN x
  ELSE NSqrtFrom[N, y, NShr[NAdd[y, NDivMod(N, y).q], 1]]

NSqrtStart[N \in Limbs, x \in Limbs] ==
  NSqrtFrom[N, x, NShr[NAdd[x, NDivMod(N, x).q], 1]]

NSqrt(N) == NSqrtStart[N, NShl[<<1>>, (NBitLen(N) + 1) \div 2]]

Double(sign, m, e) == [sign |-> sign, m |-> m, e |-> e]

Doubles == [sign : {-1, 1}, m : Limbs, e : Int]

FZero == Double(1, <<>>, 0)

FIsZero(x) == x.m = <<>>

\* round to nearest, ties to even: q is the kept part, rem the bits cut off
RoundsUp(q, rem, half) ==
  NCmp[rem, half] > 0 \/ (NCmp[rem, half] = 0 /\ NIsOdd(q))

FNormal[sign \in {-1, 1}, m \in Limbs, e \in Int] ==
  IF NBitLen(m) > MantissaBits THEN Double(sign, NShr[m, 1], e + 1)
  ELSE Double(sign, m, e)

FRoundCut[sign \in {-1, 1}, M \in Limbs, E \in Int, d \in Nat, q \in Limbs] ==
  FNormal[sign,
          IF RoundsUp(q, NSub[M, NShl[q, d]], NShl[<<1>>, d - 1])
          THEN NAdd[q, <<1>>] ELSE q,
          E + d]

\* the double nearest to sign * M * 2^E
FRound[sign \in {-1, 1}, M \in Limbs, E \in Int] ==
  IF M = <<>> THEN FZero
  ELSE IF NBitLen(M) <= MantissaBits
  THEN Double(sign, NShl[M, MantissaBits - NBitLen(M)],
              E - (MantissaBits - NBitLen(M)))
  ELSE FRoundCut[sign, M, E, NBitLen(M) - MantissaBits,
                 NShr[M, NBitLen(M) - MantissaBits]]

FOfInt(n) == FRound[IF n < 0 THEN -1 ELSE 1, NFromInt[IF n < 0 THEN -n ELSE n], 0]

FNeg(x) == IF FIsZero(x) THEN x ELSE Double(-x.sign, x.m, x.e)

FAbs(x) == Double(1, x.m, x.e)

FAddAligned[a \in Doubles, b \in Doubles, A \in Limbs, B \in Limbs, lo \in Int] ==
  IF a.sign = b.sign THEN FRound[a.sign, NAdd[A, B], lo]
  ELSE IF NCmp[A, B] = 0 THEN FZero
  ELSE IF NCmp[A, B] > 0 THEN FRound[a.sign, NSub[A, B], lo]
  ELSE FRound[b.sign, NSub[B, A], lo]

FAddAt[a \in Doubles, b \in Doubles, lo \in Int] ==
  FAddAligned[a, b, NShl[a.m, a.e - lo], NShl[b.m, b.e - lo], lo]

FAdd[a \in Doubles, b \in Doubles] ==
  IF FIsZero(a) THEN b
  ELSE IF FIsZero(b) THEN a
  ELSE FAddAt[a, b, IF a.e < b.e THEN a.e ELSE b.e]

FSub[a \in Doubles, b \in Doubles] == FAdd[a, FNeg(b)]

FMul[a \in Doubles, b \in Doubles] ==
  IF FIsZero(a) \/ FIsZero(b) THEN FZero
  ELSE FRound[a.sign * b.sign, NMul[a.m, b.m], a.e + b.e]

\* the quotient to two bits more than a mantissa, and one bit that says
\* whether anything was left
FDivOf[a \in Doubles, b \in Doubles, Q \in [q : Limbs, r : Limbs]] ==
  FRound[a.sign * b.sign,
         NAdd[NShl[Q.q, 1], IF Q.r = <<>> THEN <<>> ELSE <<1>>],
         a.e - b.e - (MantissaBits + 3)]

FDiv[a \in Doubles, b \in Doubles] ==
  IF FIsZero(a) THEN FZero
  ELSE FDivOf[a, b, NDivMod(NShl[a.m, MantissaBits + 2], b.m)]

FSqrtOf[N \in Limbs, E \in Int, root \in Limbs] ==
  FRound[1, NAdd[NShl[root, 1], IF NMul[root, root] = N THEN <<>> ELSE <<1>>], E - 1]

FSqrtAt[x \in Doubles, k \in Nat] ==
  FSqrtOf[NShl[x.m, k], (x.e - k) \div 2, NSqrt(NShl[x.m, k])]

\* Math.sqrt of a double that is not negative
FSqrt[x \in Doubles] ==
  IF FIsZero(x) THEN FZero
  ELSE FSqrtAt[x, IF x.e % 2 = 0 THEN MantissaBits + 3 ELSE MantissaBits + 4]

FSign(x) == IF FIsZero(x) THEN 0 ELSE x.sign

\* -1, 0 or 1 as a < b, a = b or a > b
FCmp[a \in Doubles, b \in Doubles] == FSign(FSub[a, b])

\* Math.floor and Math.ceil of a double that is not negative, as an integer
FFloor[x \in Doubles] ==
  IF x.e >= 0 THEN NToInt(NShl[x.m, x.e]) ELSE NToInt(NShr[x.m, -x.e])

FCeil[x \in Doubles] ==
  IF x.e >= 0 \/ NShl[NShr[x.m, -x.e], -x.e] = x.m THEN FFloor[x] ELSE FFloor[x] + 1

-----------------------------------------------------------------------------
(***************************************************************************)
(* computeLineChartAnalysis as the engine runs it, in doubles, operation   *)
(* by operation in the order of the source.                                *)
(***************************************************************************)
\* Lines 220-226, 274-288: the double of a number of the input or of a number
\* literal of the source.
DoubleOf(v) == FDiv[FOfInt(v[1]), FOfInt(v[2])]

\* Lines 51-53: the loop of sum, one addition per term, from the left.
addEach64[terms \in Seq(Doubles), i \in Nat, acc \in Doubles] ==
  IF i > Len(terms) THEN acc ELSE addEach64[terms, i + 1, FAdd[acc, terms[i]]]

\* Lines 51-53, and every "let s = 0; for (...) s += term" of lines 259-333.
sum64(numbers) == addEach64[numbers, 1, FZero]

\* Lines 83-87.
clamp64(value, minValue, maxValue) ==
  IF FCmp[value, minValue] < 0 THEN minValue
  ELSE IF FCmp[value, maxValue] > 0 THEN maxValue
  ELSE value

\* Lines 135-139.
quantileBetween64(sortedValues, position, lowerIndex, upperIndex) ==
  FAdd[sortedValues[lowerIndex + 1],
       FMul[FSub[sortedValues[upperIndex + 1], sortedValues[lowerIndex + 1]],
            FSub[position, FOfInt(lowerIndex)]]]

\* Lines 132-134.
quantileAt64(sortedValues, position) ==
  quantileBetween64(sortedValues, position, FFloor[position], FCeil[position])

\* Lines 116-140.
quantile64(sortedValues, quantileValue) ==
  IF Len(sortedValues) = 0 THEN FZero
  ELSE IF FCmp[quantileValue, FZero] <= 0 THEN sortedValues[1]
  ELSE IF FCmp[quantileValue, FOfInt(1)] >= 0 THEN sortedValues[Len(sortedValues)]
  ELSE quantileAt64(sortedValues, FMul[FOfInt(Len(sortedValues) - 1), quantileValue])

\* Line 165: the place of a value in the sorted copy.
RECURSIVE Insert64(_, _)
Insert64(s, v) ==
  IF s = <<>> THEN <<v>>
  ELSE IF FCmp[v, s[Len(s)]] >= 0 THEN Append(s, v)
  ELSE Append(Insert64(SubSeq(s, 1, Len(s) - 1), v), s[Len(s)])

\* Line 165: the sorted copy of the first k values.
RECURSIVE sortedUpTo64(_, _)
sortedUpTo64(s, k) == IF k = 0 THEN <<>> ELSE Insert64(sortedUpTo64(s, k - 1), s[k])

\* Line 165: values.toSorted((a, b) => a - b).
toSorted64(s) == sortedUpTo64(s, Len(s))

\* Line 168: values.map(v => clamp(v, lowerBound, upperBound)).
clampEach64(vals, lowerBound, upperBound) ==
  [i \in 1..Len(vals) |-> clamp64(vals[i], lowerBound, upperBound)]

\* Lines 165-168: the two bounds from the sorted copy, then the clamping.
winsorizeSorted64(vals, sorted, lowerQuantile, upperQuantile) ==
  clampEach64(vals, quantile64(sorted, lowerQuantile), quantile64(sorted, upperQuantile))

\* Lines 160-169.
winsorize64(vals, lowerQuantile, upperQuantile) ==
  winsorizeSorted64(vals, toSorted64(vals), lowerQuantile, upperQuantile)

\* Lines 265-269: the terms diff * diff of varianceSum.
squaresOfDifferences64(ys, m) ==
  [i \in 1..Len(ys) |-> FMul[FSub[ys[i], m], FSub[ys[i], m]]]

\* Lines 259-263.
withMean64(l) == l @@ [mean |-> FDiv[sum64(l.originalYValues), FOfInt(l.n)]]

\* Lines 265-270.
withStandardDeviation64(l) ==
  l @@ [standardDeviation |->
          FSqrt[FDiv[sum64(squaresOfDifferences64(l.originalYValues, l.mean)),
                     FOfInt(l.n)]]]

\* Line 272.
withCoefficientOfVariation64(l) ==
  l @@ [coefficientOfVariation |->
          IF FIsZero(l.mean) THEN NULL ELSE FDiv[l.standardDeviation, l.mean]]

\* Lines 289-290.
withWinsorizedYValues64(l) ==
  l @@ [winsorizedYValues |->
          IF Len(l.originalYValues) >= WinsorizeMinPoints
          THEN winsorize64(l.originalYValues,
                           DoubleOf(LowerQuantile), DoubleOf(UpperQuantile))
          ELSE l.originalYValues]

\* Lines 292-309.
withSums64(l) ==
  l @@ [sumX  |-> sum64([i \in 1..l.n |-> l.x[i]]),
        sumY  |-> sum64(l.winsorizedYValues),
        sumXY |-> sum64([i \in 1..l.n |-> FMul[l.x[i], l.winsorizedYValues[i]]]),
        sumXX |-> sum64([i \in 1..l.n |-> FMul[l.x[i], l.x[i]]])]

\* Line 311.
withDenominator64(l) ==
  l @@ [denominator |->
          FSub[FMul[FOfInt(l.n), l.sumXX], FMul[l.sumX, l.sumX]]]

\* Line 312.
withSlope64(l) ==
  l @@ [slope |->
          IF FIsZero(l.denominator) THEN FZero
          ELSE FDiv[FSub[FMul[FOfInt(l.n), l.sumXY], FMul[l.sumX, l.sumY]],
                    l.denominator]]

\* Lines 317-318.
withIntercept64(l) ==
  l @@ [meanY     |-> FDiv[l.sumY, FOfInt(l.n)],
        intercept |-> FDiv[FSub[l.sumY, FMul[l.slope, l.sumX]], FOfInt(l.n)]]

\* Lines 330-331: the residual of point i against the fitted line.
residual64(l, i) ==
  FSub[l.winsorizedYValues[i], FAdd[FMul[l.slope, l.x[i]], l.intercept]]

\* Lines 320-333.
withSquares64(l) ==
  l @@ [ssTotal    |-> sum64(squaresOfDifferences64(l.winsorizedYValues, l.meanY)),
        ssResidual |-> sum64([i \in 1..l.n |->
                                FMul[residual64(l, i), residual64(l, i)]])]

\* Lines 314-337.
withRSquared64(l) ==
  l @@ [rSquared |->
          IF FIsZero(l.denominator) \/ FIsZero(l.ssTotal) THEN NULL
          ELSE FSub[FOfInt(1), FDiv[l.ssResidual, l.ssTotal]]]

\* Lines 340-346.
volatilityOf64(coefficientOfVariation) ==
  IF coefficientOfVariation = NULL THEN "undefined"
  ELSE IF FCmp[coefficientOfVariation, DoubleOf(VeryStableBelow)] < 0 THEN "very_stable"
  ELSE IF FCmp[coefficientOfVariation, DoubleOf(ModerateBelow)] < 0 THEN "moderate"
  ELSE "volatile"

\* Lines 340-346.
withVolatility64(l) == l @@ [volatility |-> volatilityOf64(l.coefficientOfVariation)]

\* Lines 348-351.
withRobustMeanY64(l) ==
  l @@ [robustMeanY |->
          IF Len(l.winsorizedYValues) > 0
          THEN FDiv[sum64(l.winsorizedYValues), FOfInt(Len(l.winsorizedYValues))]
          ELSE FZero]

\* Line 352.
withRelativeSlope64(l) ==
  l @@ [relativeSlope |->
          IF FIsZero(l.robustMeanY) THEN FZero
          ELSE FDiv[FAbs(l.slope), l.robustMeanY]]

\* Lines 359-365.
trendByRSquared64(rSquared) ==
  IF FCmp[rSquared, DoubleOf(StrongAbove)] > 0 THEN "strong"
  ELSE IF FCmp[rSquared, DoubleOf(WeakAbove)] > 0 THEN "weak"
  ELSE "none"

\* Lines 367-371.
trendUpgraded64(trend, relativeSlope) ==
  IF trend = "none"
  THEN (IF FCmp[relativeSlope, DoubleOf(UpgradeToWeak)] >= 0 THEN "weak" ELSE trend)
  ELSE IF trend = "weak"
  THEN (IF FCmp[relativeSlope, DoubleOf(UpgradeToStrong)] >= 0 THEN "strong" ELSE trend)
  ELSE trend

\* Lines 354-372.
trendOf64(standardDeviation, rSquared, relativeSlope) ==
  IF FIsZero(standardDeviation) THEN "none"
  ELSE IF rSquared # NULL
  THEN trendUpgraded64(trendByRSquared64(rSquared), relativeSlope)
  ELSE "undefined"

\* Lines 354-372.
withTrend64(l) ==
  l @@ [trend |-> trendOf64(l.standardDeviation, l.rSquared, l.relativeSlope)]

\* Lines 230-242: no valid entry.
emptyAnalysis64 ==
  [mean |-> FZero, standardDeviation |-> FZero,
   coefficientOfVariation |-> NULL, slope |-> FZero, rSquared |-> NULL,
   volatility |-> "undefined", trend |-> "undefined"]

\* Lines 244-257: one valid entry.
singleAnalysis64(indexedValues) ==
  [mean |-> DoubleOf(indexedValues[1].value), standardDeviation |-> FZero,
   coefficientOfVariation |-> NULL, slope |-> FZero, rSquared |-> NULL,
   volatility |-> "very_stable", trend |-> "none"]

\* Lines 259-372: two or more valid entries.
fullAnalysis64(indexedValues) ==
  withTrend64(withRelativeSlope64(withRobustMeanY64(withVolatility64(
    withRSquared64(withSquares64(withIntercept64(withSlope64(withDenominator64(
      withSums64(withWinsorizedYValues64(
        withCoefficientOfVariation64(withStandardDeviation64(withMean64(
          [n |-> Len(indexedValues),
           x |-> [i \in 1..Len(indexedValues) |-> FOfInt(indexedValues[i].index)],
           originalYValues |->
             [i \in 1..Len(indexedValues) |-> DoubleOf(indexedValues[i].value)]]
        ))))))))))))))

\* Lines 228-257: the three cases of the number n of valid entries.
analysisByCount64(indexedValues) ==
  IF Len(indexedValues) = 0 THEN emptyAnalysis64
  ELSE IF Len(indexedValues) = 1 THEN singleAnalysis64(indexedValues)
  ELSE fullAnalysis64(indexedValues)

\* Lines 219-456: the object the call returns, its numbers doubles.
computeLineChartAnalysis64(vals) == returnedObject(analysisByCount64(indexedValuesOf(vals)))

-----------------------------------------------------------------------------
(* What a call does to the arrays: the caller's array after the call, the   *)
(* arrays and objects the call allocates, in order, and where the returned *)
(* value lives.                                                            *)

\* A number is returned by value.
ByValue == [kind |-> "value", at |-> 0]

\* The returned array or object is the k-th allocation of the call.
Allocation(k) == [kind |-> "allocation", at |-> k]

\* The returned array is the caller's array itself.
TheArgument == [kind |-> "argument", at |-> 0]

\* Slip: the second test compares value with minValue.
clampCall_AboveMin(value, minValue, maxValue) ==
  [values    |-> <<>>,
   allocated |-> <<>>,
   returned  |-> ByValue,
   result    |-> IF RLt(value, minValue) THEN minValue
                 ELSE IF RLt(minValue, value) THEN maxValue
                 ELSE value]

\* Lines 83-87: clamp takes three numbers and returns a number.
clampCall(value, minValue, maxValue) ==
  [values    |-> <<>>,
   allocated |-> <<>>,
   returned  |-> ByValue,
   result    |-> clamp(value, minValue, maxValue)]

\* Slip: the weight is upperIndex - position in place of
\* position - lowerIndex.
quantileCall_WeightFromUpper(sortedValues, quantileValue) ==
  [values    |-> sortedValues,
   allocated |-> <<>>,
   returned  |-> ByValue,
   result    |-> quantileWeightFromUpper(sortedValues, quantileValue)]

\* Lines 116-139: quantile reads sortedValues and returns a number.
quantileCall(sortedValues, quantileValue) ==
  [values    |-> sortedValues,
   allocated |-> <<>>,
   returned  |-> ByValue,
   result    |-> quantile(sortedValues, quantileValue)]

\* Slip: values.sort() in place of values.toSorted(): the caller's array is
\* sorted, and the values are mapped in sorted order.
winsorizeCall_SortInPlace(vals, lowerQuantile, upperQuantile) ==
  LET sorted == toSorted(vals)
      mapped == winsorize(sorted, lowerQuantile, upperQuantile)
  IN  [values    |-> sorted,
       allocated |-> <<mapped>>,
       returned  |-> Allocation(1),
       result    |-> mapped]

\* Slip: the bounds are the quantiles of values, not of its sorted copy.
winsorizeCall_BoundsOfUnsorted(vals, lowerQuantile, upperQuantile) ==
  LET lowerBound == quantile(vals, lowerQuantile)
      upperBound == quantile(vals, upperQuantile)
      mapped     == [i \in 1..Len(vals) |-> clamp(vals[i], lowerBound, upperBound)]
  IN  [values    |-> vals,
       allocated |-> <<toSorted(vals), mapped>>,
       returned  |-> Allocation(2),
       result    |-> mapped]

\* Lines 160-169: toSorted allocates the sorted copy, map the result.
winsorizeCall(vals, lowerQuantile, upperQuantile) ==
  LET mapped == winsorize(vals, lowerQuantile, upperQuantile)
  IN  [values    |-> vals,
       allocated |-> <<toSorted(vals), mapped>>,
       returned  |-> Allocation(2),
       result    |-> mapped]

\* Lines 55-61: `result` is allocated first, then one slice per chunk.
chunkIntoWeeksCall(items, weekSize) ==
  LET chunks == chunkIntoWeeks(items, weekSize)
  IN  [values    |-> items,
       allocated |-> <<chunks>> \o chunks,
       returned  |-> Allocation(1),
       result    |-> chunks]

\* Lines 63-73: the allocations of chunkIntoWeeks, then per week the array
\* of its downloads and its bucket, then the array map returns.
buildWeeklyEvolutionFromDailyCall(daily) ==
  LET weeks   == chunkIntoWeeksCall(daily, DaysPerWeek)
      buckets == buildWeeklyEvolutionFromDaily(daily)
      perWeek == [w \in 1..Len(buckets) |->
                    <<[d \in 1..Len(weeks.result[w]) |-> weeks.result[w][d].downloads],
                      buckets[w]>>]
      flat[w \in 0..Len(buckets)] ==
        IF w = 0 THEN <<>> ELSE flat[w - 1] \o perWeek[w]
      all     == weeks.allocated \o flat[Len(buckets)] \o <<buckets>>
  IN  [values    |-> daily,
       allocated |-> all,
       returned  |-> Allocation(Len(all)),
       result    |-> buckets]

\* Lines 219-456: indexedValues, then for n >= 2 originalYValues and, from
\* 20 valid points on, the arrays of winsorize, then the returned object.
\* values is only read (lines 222-223).
computeLineChartAnalysisCall(vals, l) ==
  LET arrays ==
        IF l.n < 2 THEN <<l.indexedValues>>
        ELSE <<l.indexedValues, l.originalYValues>> \o
             (IF l.n >= WinsorizeMinPoints
              THEN winsorizeCall(l.originalYValues, LowerQuantile, UpperQuantile).allocated
              ELSE <<>>)
      all == arrays \o <<returnedObject(l)>>
  IN  [values    |-> vals,
       allocated |-> all,
       returned  |-> Allocation(Len(all)),
       result    |-> returnedObject(l)]

-----------------------------------------------------------------------------
(* The alternative texts.  A text is the sequence of its pieces, '' is the *)
(* empty sequence and + is \o.  The callbacks of config are not code of    *)
(* this file: a piece is what one call of a callback returned, written as  *)
(* the call itself.                                                        *)

\* ''
EmptyText == <<>>

\* config.$t(key, named): the translation of key with its named parameters.
Translation(key, named) == <<[key |-> key, named |-> named]>>

\* config.$t(key)
TranslationOf(key) == Translation(key, <<>>)

\* config.numberFormatter(value)
numberFormatter(value) == <<[formatted |-> value]>>

\* text.toLocaleLowerCase()
toLocaleLowerCase(text) == [i \in 1..Len(text) |-> [lower |-> text[i]]]

\* texts.join(', ')
RECURSIVE join(_)
join(texts) ==
  IF Len(texts) = 0 THEN EmptyText
  ELSE IF Len(texts) = 1 THEN texts[1]
  ELSE join(SubSeq(texts, 1, Len(texts) - 1)) \o <<", ">> \o texts[Len(texts)]

\* array.toReversed()
toReversed(array) == [i \in 1..Len(array) |-> array[Len(array) + 1 - i]]

\* array.filter(keep), for a set of kept elements.
RECURSIVE filter(_, _)
filter(array, kept) ==
  IF array = <<>> THEN <<>>
  ELSE LET first == filter(SubSeq(array, 1, Len(array) - 1), kept)
           last  == array[Len(array)]
       IN  IF last \in kept THEN Append(first, last) ELSE first

\* array[i] ?? fallback, for a 0-based i: fallback past the end.
At(array, i, fallback) ==
  IF i + 1 \in DOMAIN array THEN array[i + 1] ELSE fallback

\* Lines 498-503: per line its name, the analysis of its series, and the
\* two fields of config.
lineAnalysisOf(dataset, config) ==
  [i \in 1..Len(dataset.lines) |->
     [name |-> dataset.lines[i].name, dates |-> config.formattedDates,
      hasEstimation |-> config.hasEstimation]
       @@ computeLineChartAnalysis(dataset.lines[i].series)]

\* Lines 505-513: the keys of the four granularities, weekly for any other.
granularityKeyOf(granularity) ==
  IF granularity = "daily" THEN "package.trends.granularity_daily"
  ELSE IF granularity = "monthly" THEN "package.trends.granularity_monthly"
  ELSE IF granularity = "yearly" THEN "package.trends.granularity_yearly"
  ELSE "package.trends.granularity_weekly"

\* Lines 519-531.
trendTextOf(trend) ==
  IF trend = "none" THEN TranslationOf("package.trends.copy_alt.trend_none")
  ELSE IF trend = "weak" THEN TranslationOf("package.trends.copy_alt.trend_weak")
  ELSE IF trend = "strong" THEN TranslationOf("package.trends.copy_alt.trend_strong")
  ELSE TranslationOf("package.trends.copy_alt.trend_undefined")

\* Lines 517-541.
packagesAnalysisOf(analysis, config) ==
  join([i \in 1..Len(analysis) |->
          LET formatted == At(config.formattedDatasetValues, i - 1, <<>>)
          IN  Translation("package.trends.copy_alt.analysis",
                [package_name    |-> analysis[i].name,
                 start_value     |-> At(formatted, 0, Zero),
                 end_value       |-> At(formatted, Len(formatted) - 1, Zero),
                 trend           |-> trendTextOf(analysis[i].interpretation.trend),
                 downloads_slope |-> numberFormatter(analysis[i].slope)])])

\* Lines 545-551.
estimationNoticeOf(analysis, config) ==
  IF config.hasEstimation
  THEN <<" ">> \o (IF Len(analysis) = 1
                   THEN TranslationOf("package.trends.copy_alt.estimation")
                   ELSE TranslationOf("package.trends.copy_alt.estimations"))
  ELSE EmptyText

\* Lines 553-555.
compareTextOf(analysis) ==
  Translation("package.trends.copy_alt.compare",
              [packages |-> join([i \in 1..Len(analysis) |-> <<analysis[i].name>>])])
    \o <<" ">>

\* Lines 557-559.
singlePackageTextOf(analysis) ==
  Translation("package.trends.copy_alt.single_package",
              [package |-> IF Len(analysis) > 0 THEN analysis[1].name ELSE ""])
    \o <<" ">>

\* Lines 561-568.
generalAnalysisOf(analysis, config) ==
  LET dates == IF Len(analysis) > 0 THEN analysis[1].dates ELSE <<>>
  IN  Translation("package.trends.copy_alt.general_description",
        [start_date        |-> IF Len(dates) > 0 THEN dates[1].text ELSE "-",
         end_date          |-> IF Len(dates) > 0 THEN dates[Len(dates)].text ELSE "-",
         granularity       |->
           toLocaleLowerCase(TranslationOf(granularityKeyOf(config.granularity))),
         packages_analysis |-> packagesAnalysisOf(analysis, config),
         watermark         |-> TranslationOf("package.trends.copy_alt.watermark"),
         estimation_notice |-> estimationNoticeOf(analysis, config)])

\* Lines 492-571.
createAltTextForTrendLineChart(dataset, config) ==
  IF dataset = NULL THEN EmptyText
  ELSE LET analysis == lineAnalysisOf(dataset, config)
       IN  (IF Len(analysis) = 1 THEN singlePackageTextOf(analysis)
            ELSE compareTextOf(analysis))
             \o generalAnalysisOf(analysis, config)

\* Lines 588-594: one entry per value of the series.
versionsOf(series, datapointLabels) ==
  [i \in 1..Len(series) |->
     LET value == IF series[i] = NULL THEN Zero ELSE series[i]
     IN  [index        |-> i - 1,
          name         |-> At(datapointLabels, i - 1, "-"),
          rawDownloads |-> value,
          downloads    |-> numberFormatter(value)]]

\* Line 598: reduce without an initial value: max starts as the first
\* entry, and the entries after it are visited in order.
RECURSIVE reduceMax(_, _)
reduceMax(versions, upTo) ==
  IF upTo = 1 THEN versions[1]
  ELSE LET max     == reduceMax(versions, upTo - 1)
           current == versions[upTo]
       IN  IF RLt(max.rawDownloads, current.rawDownloads) THEN current ELSE max

\* Lines 596-599; undefined is NULL.
versionWithMaxDownloadsOf(versions) ==
  IF Len(versions) > 0 THEN reduceMax(versions, Len(versions)) ELSE NULL

\* Slip: the entries are filtered by their downloads, so that every entry
\* that ties with the maximum is left out.
perVersionOf_ByDownloads(versions, versionWithMaxDownloads) ==
  LET others == {v \in {versions[i] : i \in DOMAIN versions} :
                   versionWithMaxDownloads = NULL
                     \/ v.rawDownloads # versionWithMaxDownloads.rawDownloads}
  IN  [i \in 1..Len(filter(toReversed(versions), others)) |->
         LET v == filter(toReversed(versions), others)[i]
         IN  Translation("package.versions.copy_alt.per_version_analysis",
                         [version |-> v.name, downloads |-> v.downloads])]

\* Lines 601-609: the translated items, before they are joined.
perVersionOf(versions, versionWithMaxDownloads) ==
  LET others == {v \in {versions[i] : i \in DOMAIN versions} :
                   versionWithMaxDownloads = NULL
                     \/ v.index # versionWithMaxDownloads.index}
  IN  [i \in 1..Len(filter(toReversed(versions), others)) |->
         LET v == filter(toReversed(versions), others)[i]
         IN  Translation("package.versions.copy_alt.per_version_analysis",
                         [version |-> v.name, downloads |-> v.downloads])]

\* Lines 588-610: the locals of createAltTextForVersionsBarChart.
versionsLocals(dataset, config) ==
  LET series   == IF Len(dataset.bars) > 0 THEN dataset.bars[1].series ELSE <<>>
      versions == versionsOf(series, config.datapointLabels)
      max      == versionWithMaxDownloadsOf(versions)
      items    == perVersionOf(versions, max)
  IN  [series |-> series, versions |-> versions,
       versionWithMaxDownloads |-> max,
       perVersionItems |-> items,
       per_version_analysis |-> join(items)]

\* Lines 612-630: the text, built from the locals.
versionsAltText(dataset, config, l) ==
  Translation("package.versions.copy_alt.general_description",
    [package_name |-> IF Len(dataset.bars) > 0 THEN dataset.bars[1].name ELSE "-",
     versions_count |-> Len(l.versions),
     semver_grouping_mode |->
       toLocaleLowerCase(IF config.semverGroupingMode = "major"
                         THEN TranslationOf("package.versions.grouping_major")
                         ELSE TranslationOf("package.versions.grouping_minor")),
     first_version |-> IF Len(l.versions) > 0 THEN l.versions[1].name ELSE "-",
     last_version |-> IF Len(l.versions) > 0 THEN l.versions[Len(l.versions)].name ELSE "-",
     date_range_label |-> config.dateRangeLabel,
     max_downloaded_version |->
       IF l.versionWithMaxDownloads = NULL THEN "-" ELSE l.versionWithMaxDownloads.name,
     max_version_downloads |->
       IF l.versionWithMaxDownloads = NULL THEN <<"-">>
       ELSE l.versionWithMaxDownloads.downloads,
     per_version_analysis |-> l.per_version_analysis,
     watermark |-> TranslationOf("package.trends.copy_alt.watermark")])

\* Lines 582-631.
createAltTextForVersionsBarChart(dataset, config) ==
  IF dataset = NULL THEN EmptyText
  ELSE versionsAltText(dataset, config, versionsLocals(dataset, config))

\* Slip: config.copy is called without await.
copyAltTextForTrendLineChart_NoAwait(dataset, config) ==
  [copyCalls |-> <<createAltTextForTrendLineChart(dataset, config)>>,
   awaited   |-> FALSE]

\* Lines 573-579: the calls of config.copy, and whether the call is awaited.
copyAltTextForTrendLineChart(dataset, config) ==
  [copyCalls |-> <<createAltTextForTrendLineChart(dataset, config)>>,
   awaited   |-> TRUE]

\* Lines 633-639.
copyAltTextForVersionsBarChart(dataset, config) ==
  [copyCalls |-> <<createAltTextForVersionsBarChart(dataset, config)>>,
   awaited   |-> TRUE]

\* Lines 582-631: series is only read; versions, its reversed copy and the
\* mapped items are allocated, and a string is returned.
createAltTextForVersionsBarChartCall(dataset, config) ==
  [values    |-> IF dataset # NULL /\ Len(dataset.bars) > 0
                 THEN dataset.bars[1].series ELSE <<>>,
   allocated |-> IF dataset = NULL THEN <<>>
                 ELSE LET l == versionsLocals(dataset, config)
                      IN  <<l.versions, toReversed(l.versions), l.perVersionItems>>,
   returned  |-> ByValue,
   result    |-> createAltTextForVersionsBarChart(dataset, config)]

-----------------------------------------------------------------------------
(* The blog sync of src/modules/standard-site-sync.ts: the build:before    *)
(* hook, syncFile and syncsiteStandardDocuments, for the collection        *)
(* site.standard.document of the PDS.  A date is written as its getTime(), *)
(* in milliseconds from a midnight.                                        *)

\* Line 19: the module-level map; no line of the file writes to it.
syncedDocuments == {}

CLOCK_ID_THREE == 3

MS_TO_MICROSECONDS == 1000

ONE_DAY_MILLISECONDS == 86400000

\* Lines 164-165: parseInt(md5(filePath).slice(0, 8), 16) % 1000000, a
\* number below 1000000 fixed by the path; the digest itself is not
\* computed here.
pathOffset(filePath) == IF filePath = "a.md" THEN 123456 ELSE 654321

\* TID.fromTime(microseconds, clockId).str: one record key per time and
\* clock id.
fromTime(microseconds, clockId) == [time |-> microseconds, clockId |-> clockId]

\* Lines 157-171.
generateTID(date, filePath) ==
  LET timestamp == IF date % ONE_DAY_MILLISECONDS = 0 THEN date + pathOffset(filePath)
                   ELSE date
  IN  fromTime(timestamp * MS_TO_MICROSECONDS, CLOCK_ID_THREE)

\* Lines 181-185.
createContentHash(data) == [sha256 |-> data]

\* Lines 187-196.
buildATProtoDocument(siteUrl, data) ==
  [site |-> siteUrl, path |-> data.path, title |-> data.title,
   publishedAt |-> [iso |-> data.date]]

NPMX_SITE == "https://npmx.dev"

\* com.atproto.repo.getRecord on the collection, by record key: the record
\* when there is one, RecordNotFound otherwise, or another error.
getRecord(records, rkey) ==
  {[success |-> FALSE, error |-> "InternalServerError"]}
    \cup (IF \E r \in records : r.rkey = rkey
          THEN {[success |-> TRUE, error |-> ""]}
          ELSE {[success |-> FALSE, error |-> "RecordNotFound"]})

\* Lines 206-269, for a frontmatter that passes the schema; response is
\* what getRecord answered.  undefined is NULL.
syncFile(data, filePath, response) ==
  IF data.draft THEN NULL
  ELSE IF [path |-> data.path, hash |-> createContentHash(data)] \in syncedDocuments
  THEN NULL
  ELSE IF response.success THEN NULL
  ELSE IF response.error = "RecordNotFound"
  THEN [tid      |-> generateTID(data.date, filePath),
        document |-> buildATProtoDocument(NPMX_SITE, data)]
  ELSE NULL

\* Lines 136-151: one create per document, applied as one commit: when a
\* record key is in use, or two writes share one, nothing is written.
applyWrites(records, documents) ==
  LET writes == {[rkey |-> documents[i].tid, value |-> documents[i].document] :
                   i \in DOMAIN documents}
      rkeys  == {w.rkey : w \in writes}
  IN  IF \/ \E w \in writes : \E r \in records : r.rkey = w.rkey
         \/ Cardinality(rkeys) # Len(documents)
      THEN records
      ELSE records \cup writes

-----------------------------------------------------------------------------
(* Inputs                                                                  *)

MaxLen == 3

\* An input entry is NULL or a number R(v).
Vals == {R(v) : v \in {-5, 0, 3, 5, 90, 100, 105, 110}}

RECURSIVE SeqsUpTo(_, _)
SeqsUpTo(S, k) ==
  IF k = 0 THEN {<<>>}
  ELSE LET shorter == SeqsUpTo(S, k - 1)
       IN  shorter \cup {Append(s, v) : s \in {t \in shorter : Len(t) = k - 1}, v \in S}

ShortInputs == SeqsUpTo(Vals \cup {NULL}, MaxLen)

\* Series around the winsorization threshold: LongLevel everywhere except at
\* two of the positions next to either end, each of which holds a missing
\* entry, an outlier of LongVals or LongLevel again.
LongLens == {WinsorizeMinPoints, WinsorizeMinPoints + 1}

LongLevel == R(100)

LongVals == {NULL, R(80), LongLevel, R(120), R(140)}

EdgePositions(len) == {1, 2, len - 1, len}

LongInput(len, p1, v1, p2, v2) ==
  [i \in 1..len |-> IF i = p2 THEN v2 ELSE IF i = p1 THEN v1 ELSE LongLevel]

LongInputs ==
  UNION { { LongInput(len, p1, v1, p2, v2) :
              p1 \in EdgePositions(len), p2 \in EdgePositions(len),
              v1 \in LongVals, v2 \in LongVals } :
          len \in LongLens }

Inputs == ShortInputs \cup LongInputs

\* Arguments of quantile and winsorize: arrays in any order, and fractions
\* below, at, between and above 0 and 1.
MaxValues == 3

NumberArrays == SeqsUpTo({R(v) : v \in {-5, 0, 3, 5}}, MaxValues)

QuantileValues ==
  {Rat(-1, 2), Zero, LowerQuantile, Rat(1, 4), Rat(1, 2), Rat(3, 4), UpperQuantile,
   R(1), Rat(3, 2)}

WinsorizeQuantiles == {Zero, LowerQuantile, Rat(1, 4), Rat(1, 2), Rat(3, 4), R(1)}

\* Arguments of clamp: whole numbers and decimals, in any order.
ClampNumbers == {R(-10), R(-5), Zero, Rat(1, 2), Rat(3, 2), R(5), R(10)}

\* Arguments of chunkIntoWeeks.
MaxItems == 5

\* The iterations of the loop of chunkIntoWeeks that are followed; more
\* than any terminating call on MaxItems items makes.
MaxIterations == MaxItems + 2

ItemArrays == SeqsUpTo({"a", "b"}, MaxItems)

WeekSizes == {1, 2, 3, DaysPerWeek}

\* Week sizes of the loop, with those that are not positive.
LoopWeekSizes == {-2, -1, 0} \cup WeekSizes

\* Daily series: consecutive days, each with its downloads.
MaxDays == 9

DayNames ==
  <<"2025-01-01", "2025-01-02", "2025-01-03", "2025-01-04", "2025-01-05",
    "2025-01-06", "2025-01-07", "2025-01-08", "2025-01-09", "2025-01-10",
    "2025-01-11", "2025-01-12", "2025-01-13", "2025-01-14", "2025-01-15",
    "2025-01-16">>

Daily(downloads) ==
  [i \in 1..Len(downloads) |-> [day |-> DayNames[i], downloads |-> downloads[i]]]

DailySeries ==
  {Daily(ds) : ds \in SeqsUpTo({R(0), R(3)}, MaxDays)}
    \cup {Daily([i \in 1..n |-> R(i)]) : n \in {2 * DaysPerWeek, 2 * DaysPerWeek + 1}}

\* Arguments of createAltTextForVersionsBarChart: no dataset, a dataset
\* without bars, and one bar whose series has missing entries, ties and a
\* negative value; labels for every entry or for the first only.
MaxBars == 3

BarValues == {NULL, R(-5), Zero, R(5)}

VersionsBarDatasets ==
  {NULL, [bars |-> <<>>]}
    \cup {[bars |-> <<[name |-> "pkg", series |-> s]>>] : s \in SeqsUpTo(BarValues, MaxBars)}

VersionsBarConfigs ==
  {[datapointLabels |-> l, semverGroupingMode |-> m, dateRangeLabel |-> "RANGE"] :
     l \in {<<"v1", "v2", "v3", "v4">>, <<"v1">>}, m \in {"major", "minor"}}

\* Arguments of copyAltTextForTrendLineChart: no dataset, and datasets of
\* no, one and two lines.
LineSeries ==
  {<<>>, <<NULL, R(5)>>, <<R(5), R(5)>>, <<R(10), R(20), R(30), R(40)>>,
   <<R(40), R(30), R(20), R(10)>>}

LineNames == <<"nuxt", "vue", "react", "svelte">>

MaxLines == 2

TrendLineDatasets ==
  {NULL} \cup
  {[lines |-> [i \in 1..Len(ss) |-> [name |-> LineNames[i], series |-> ss[i]]]] :
     ss \in SeqsUpTo(LineSeries, MaxLines)}

TrendLineConfigs ==
  {[formattedDates |-> d, hasEstimation |-> e, formattedDatasetValues |-> f,
    granularity |-> g] :
     d \in {<<>>, <<[text |-> "2026-03-01", absoluteIndex |-> 0],
                    [text |-> "2026-03-10", absoluteIndex |-> 9]>>},
     e \in BOOLEAN,
     f \in {<<>>, <<<<"1", "2">>>>},
     g \in {"daily", "weekly", "monthly", "yearly", "day"}}

\* The array among the arguments: the series of the first bar.
SeriesOfBars(dataset) ==
  IF dataset # NULL /\ Len(dataset.bars) > 0 THEN dataset.bars[1].series ELSE <<>>

\* The blog: two files, each with its path, a date that is a midnight or
\* one second past it, a title and the draft flag.
Files == <<"a.md", "b.md">>

PathOf(filePath) == IF filePath = "a.md" THEN "/blog/a" ELSE "/blog/b"

Titles == {"Old", "New"}

Dates == {0, 1000}

Frontmatters(filePath) ==
  {[path |-> PathOf(filePath), title |-> t, date |-> d, draft |-> dr] :
     t \in Titles, d \in Dates, dr \in BOOLEAN}

BlogPosts ==
  {[i \in 1..Len(Files) |-> fs[i]] :
     fs \in Frontmatters(Files[1]) \X Frontmatters(Files[2])}

-----------------------------------------------------------------------------
(* The state machine: one call of one of the functions on an input, or the *)
(* builds of the blog.                                                     *)

NoResult == [mean |-> NULL]

\* The call that is made: the function, its array argument (values) and
\* its other arguments (args).
InitCall ==
  \/ /\ fn = "computeLineChartAnalysis"
     /\ values \in Inputs
     /\ args = <<>>
     /\ posts = <<>>
  \/ /\ fn = "clamp"
     /\ values = <<>>
     /\ args \in ClampNumbers \X ClampNumbers \X ClampNumbers
     /\ posts = <<>>
  \/ /\ fn = "quantile"
     /\ values \in NumberArrays
     /\ args \in {<<q>> : q \in QuantileValues}
     /\ posts = <<>>
  \/ /\ fn = "winsorize"
     /\ values \in NumberArrays
     /\ args \in WinsorizeQuantiles \X WinsorizeQuantiles
     /\ posts = <<>>
  \/ /\ fn = "chunkIntoWeeks"
     /\ values \in ItemArrays
     /\ args \in {<<w>> : w \in WeekSizes}
     /\ posts = <<>>
  \/ /\ fn = "buildWeeklyEvolutionFromDaily"
     /\ values \in DailySeries
     /\ args = <<>>
     /\ posts = <<>>
  \/ /\ fn = "copyAltTextForTrendLineChart"
     /\ args \in TrendLineDatasets \X TrendLineConfigs
     /\ values = <<>>
     /\ posts = <<>>
  \/ /\ fn = "copyAltTextForVersionsBarChart"
     /\ args \in VersionsBarDatasets \X VersionsBarConfigs
     /\ values = SeriesOfBars(args[1])
     /\ posts = <<>>
  \/ /\ fn = "createAltTextForVersionsBarChart"
     /\ args \in VersionsBarDatasets \X VersionsBarConfigs
     /\ values = SeriesOfBars(args[1])
     /\ posts = <<>>
  \/ /\ fn = "sync"
     /\ values = <<>>
     /\ args = <<>>
     /\ posts \in BlogPosts

Init ==
  /\ InitCall
  /\ pc = "ready"
  /\ result = NoResult
  /\ regression = NoResult
  /\ locals = NoResult
  /\ allocated = <<>>
  /\ returned = ByValue
  /\ copyCalls = <<>>
  /\ copyPromise = "none"
  /\ promise = "none"
  /\ pds = {}
  /\ pending = {}
  /\ results = <<>>
  /\ documentsToSync = <<>>
  /\ index = 0

\* The call returns: the caller's array, the allocations, the returned value.
Return(call) ==
  /\ pc' = "done"
  /\ values' = call.values
  /\ allocated' = call.allocated
  /\ returned' = call.returned
  /\ result' = call.result
  /\ UNCHANGED <<fn, args, copyVars, syncVars, index>>

Analyse ==
  /\ pc = "ready"
  /\ fn = "computeLineChartAnalysis"
  /\ pc' = "done"
  /\ result' = computeLineChartAnalysis(values)
  /\ regression' = analysisOf(values)
  /\ allocated' = computeLineChartAnalysisCall(values, regression').allocated
  /\ returned' = computeLineChartAnalysisCall(values, regression').returned
  /\ UNCHANGED <<values, fn, args, locals, copyVars, syncVars, index>>

Clamp ==
  /\ pc = "ready"
  /\ fn = "clamp"
  /\ Return(clampCall(args[1], args[2], args[3]))
  /\ UNCHANGED <<regression, locals>>

Quantile ==
  /\ pc = "ready"
  /\ fn = "quantile"
  /\ Return(quantileCall(values, args[1]))
  /\ UNCHANGED <<regression, locals>>

Winsorize ==
  /\ pc = "ready"
  /\ fn = "winsorize"
  /\ Return(winsorizeCall(values, args[1], args[2]))
  /\ UNCHANGED <<regression, locals>>

ChunkIntoWeeks ==
  /\ pc = "ready"
  /\ fn = "chunkIntoWeeks"
  /\ Return(chunkIntoWeeksCall(values, args[1]))
  /\ UNCHANGED <<regression, locals>>

BuildWeeklyEvolutionFromDaily ==
  /\ pc = "ready"
  /\ fn = "buildWeeklyEvolutionFromDaily"
  /\ Return(buildWeeklyEvolutionFromDailyCall(values))
  /\ UNCHANGED <<regression, locals>>

CreateAltTextForVersionsBarChart ==
  /\ pc = "ready"
  /\ fn = "createAltTextForVersionsBarChart"
  /\ Return(createAltTextForVersionsBarChartCall(args[1], args[2]))
  /\ locals' = IF args[1] = NULL THEN NoResult ELSE versionsLocals(args[1], args[2])
  /\ UNCHANGED regression

\* Lines 573-578 and 633-638, up to the await: the text is built and
\* config.copy is called with it; the function returns its promise.
CopyAltText(start) ==
  /\ pc = "ready"
  /\ copyCalls' = copyCalls \o start.copyCalls
  /\ copyPromise' = "pending"
  /\ promise' = IF start.awaited THEN "pending" ELSE "fulfilled"
  /\ pc' = IF start.awaited THEN "awaiting" ELSE "done"
  /\ UNCHANGED <<values, result, regression, fn, args, allocated, returned, locals,
                 syncVars, index>>

CopyAltTextForTrendLineChart ==
  /\ fn = "copyAltTextForTrendLineChart"
  /\ CopyAltText(copyAltTextForTrendLineChart(args[1], args[2]))

CopyAltTextForVersionsBarChart ==
  /\ fn = "copyAltTextForVersionsBarChart"
  /\ CopyAltText(copyAltTextForVersionsBarChart(args[1], args[2]))

\* The promise config.copy returned is fulfilled or rejected by its owner.
CopySettles ==
  /\ copyPromise = "pending"
  /\ copyPromise' \in {"fulfilled", "rejected"}
  /\ UNCHANGED <<values, pc, result, regression, fn, args, allocated, returned,
                 locals, copyCalls, promise, syncVars, index>>

\* Lines 578-579 and 638-639, after the await: the function ends, or the
\* await throws, and the returned promise settles the same way.
CopyAltTextResumes ==
  /\ pc = "awaiting"
  /\ copyPromise # "pending"
  /\ promise' = copyPromise
  /\ pc' = "done"
  /\ UNCHANGED <<values, result, regression, fn, args, allocated, returned,
                 locals, copyCalls, copyPromise, syncVars, index>>

\* Lines 55-63: the hook starts; the files make one batch (there are
\* fewer than concurrencyLimit).
SyncStart ==
  /\ pc = "ready"
  /\ fn = "sync"
  /\ pending' = DOMAIN posts
  /\ results' = <<>>
  /\ documentsToSync' = <<>>
  /\ pc' = "batch"
  /\ UNCHANGED <<values, result, regression, fn, args, allocated, returned, locals,
                 copyVars, posts, pds, index>>

\* Lines 65-71: syncFile of one file of the batch returns.  getRecord is
\* asked only for a post that is not a draft.
SyncFile(i) ==
  /\ pc = "batch"
  /\ i \in pending
  /\ \E response \in (IF posts[i].draft THEN {NULL}
                       ELSE getRecord(pds, generateTID(posts[i].date, Files[i]))) :
       results' = results @@ (i :> [response |-> response,
                                   value    |-> syncFile(posts[i], Files[i], response)])
  /\ pending' = pending \ {i}
  /\ UNCHANGED <<values, pc, result, regression, fn, args, allocated, returned, locals,
                 copyVars, posts, pds, documentsToSync, index>>

SyncFiles == \E i \in DOMAIN posts : SyncFile(i)

\* Lines 72-74: Promise.all is through; what is not undefined is pushed, in
\* the order of the files.
SyncBatchDone ==
  /\ pc = "batch"
  /\ pending = {}
  /\ documentsToSync' =
       documentsToSync \o
         filter([i \in 1..Len(posts) |-> results[i].value],
                {results[i].value : i \in 1..Len(posts)} \ {NULL})
  /\ pc' = "collected"
  /\ UNCHANGED <<values, result, regression, fn, args, allocated, returned, locals,
                 copyVars, posts, pds, pending, results, index>>

\* Lines 76-99: with documents to sync, login and syncsiteStandardDocuments;
\* an error of either is caught and nothing is written.
SyncDocuments ==
  /\ pc = "collected"
  /\ \/ pds' = IF Len(documentsToSync) > 0 THEN applyWrites(pds, documentsToSync)
                ELSE pds
     \/ Len(documentsToSync) > 0 /\ pds' = pds
  /\ pc' = "done"
  /\ UNCHANGED <<values, result, regression, fn, args, allocated, returned, locals,
                 copyVars, posts, pending, results, documentsToSync, index>>

\* Between two builds a post is edited: its title or its draft flag.
EditPost ==
  /\ pc = "done"
  /\ fn = "sync"
  /\ \E i \in DOMAIN posts, t \in Titles, dr \in BOOLEAN :
       posts' = [posts EXCEPT ![i].title = t, ![i].draft = dr]
  /\ pc' = "ready"
  /\ UNCHANGED <<values, result, regression, fn, args, allocated, returned, locals,
                 copyVars, pds, pending, results, documentsToSync, index>>

Next ==
  \/ Analyse
  \/ Clamp
  \/ Quantile
  \/ Winsorize
  \/ ChunkIntoWeeks
  \/ BuildWeeklyEvolutionFromDaily
  \/ CreateAltTextForVersionsBarChart
  \/ CopyAltTextForTrendLineChart
  \/ CopyAltTextForVersionsBarChart
  \/ CopySettles
  \/ CopyAltTextResumes
  \/ SyncStart
  \/ SyncFiles
  \/ SyncBatchDone
  \/ SyncDocuments
  \/ EditPost

Spec == Init /\ [][Next]_vars

-----------------------------------------------------------------------------
(* The loop of chunkIntoWeeks, iteration by iteration.                     *)

\* Line 56: result is the empty array, and index is 0 at the loop head.
LoopInit ==
  /\ fn = "chunkIntoWeeks"
  /\ values \in ItemArrays
  /\ args \in {<<w>> : w \in LoopWeekSizes}
  /\ pc = "loop"
  /\ result = <<>>
  /\ index = 0
  /\ regression = NoResult
  /\ locals = NoResult
  /\ allocated = <<>>
  /\ returned = ByValue
  /\ copyCalls = <<>>
  /\ copyPromise = "none"
  /\ promise = "none"
  /\ posts = <<>>
  /\ pds = {}
  /\ pending = {}
  /\ results = <<>>
  /\ documentsToSync = <<>>

\* Lines 57-59: one iteration.
LoopIteration ==
  /\ pc = "loop"
  /\ index < Len(values)
  /\ Len(result) < MaxIterations
  /\ result' = Append(result, chunkAt(values, args[1], index))
  /\ index' = nextIndex(index, args[1])
  /\ UNCHANGED <<values, pc, regression, fn, args, allocated, returned, locals,
                 copyVars, syncVars>>

\* Lines 57 and 60: the test fails and result is returned.
LoopReturn ==
  /\ pc = "loop"
  /\ ~(index < Len(values))
  /\ pc' = "done"
  /\ allocated' = <<result>> \o result
  /\ returned' = Allocation(1)
  /\ UNCHANGED <<values, result, regression, fn, args, locals, copyVars, syncVars,
                 index>>

LoopNext ==
  \/ LoopIteration
  \/ LoopReturn

\* The call runs on as long as it can take a step.
LoopSpec == LoopInit /\ [][LoopNext]_vars /\ WF_vars(LoopNext)

-----------------------------------------------------------------------------
(* What the input says, read off `values` without the code's locals.       *)

Done == pc = "done" /\ fn = "computeLineChartAnalysis"

\* 1-based positions of the non-missing entries; the x-coordinate of
\* position i is i - 1.
ValidPositions == {i \in 1..Len(values) : values[i] # NULL}

NumValid == Cardinality(ValidPositions)

Rank(i) == Cardinality({j \in ValidPositions : j <= i})

RECURSIVE SumOver(_, _)
SumOver(S, f) ==
  IF S = {} THEN Zero
  ELSE LET i == CHOOSE j \in S : TRUE
       IN  RAdd(f[i], SumOver(S \ {i}, f))

\* slope b and rSquared r2 are the least-squares fit of the points
\* (i - 1, y[i]), i \in ValidPositions: with a the intercept that makes the
\* residuals sum to 0, the residuals are orthogonal to x (normal equation),
\* and r2 is 1 - SSres / SStot, absent when SStot = 0.
IsLeastSquaresFit(y, b, r2) ==
  LET P    == ValidPositions
      n    == R(Cardinality(P))
      x    == [i \in P |-> R(i - 1)]
      a    == RDiv(RSub(SumOver(P, y), RMul(b, SumOver(P, x))), n)
      res  == [i \in P |-> RSub(y[i], RAdd(a, RMul(b, x[i])))]
      meanY == RDiv(SumOver(P, y), n)
      ssRes == SumOver(P, [i \in P |-> RMul(res[i], res[i])])
      ssTot == SumOver(P, [i \in P |-> RMul(RSub(y[i], meanY), RSub(y[i], meanY))])
  IN  /\ SumOver(P, [i \in P |-> RMul(x[i], res[i])]) = Zero
      /\ IF ssTot = Zero THEN r2 = NULL
         ELSE r2 # NULL /\ RMul(r2, ssTot) = RSub(ssTot, ssRes)

RawY == [i \in ValidPositions |-> values[i]]

\* The y-value the regression used for the entry at position i.
RegressionY == [i \in ValidPositions |-> regression.winsorizedYValues[Rank(i)]]

-----------------------------------------------------------------------------
(* C1 *)

\* C1: the regression is fitted on (original 0-based position, value) pairs
\* of the non-missing entries.  Missing entries are skipped (n is the number
\* of non-missing entries), none is turned into a number, and the k-th
\* valid entry keeps the position it had in the input; slope and rSquared
\* are the least-squares fit of the regression values against those
\* positions.
C1_RegressionOnOriginalPositions ==
  Done =>
    /\ regression.n = NumValid
    /\ \A i \in ValidPositions :
         regression.indexedValues[Rank(i)] = [value |-> values[i], index |-> i - 1]
    /\ NumValid >= 2 =>
         IsLeastSquaresFit(IF NumValid >= WinsorizeMinPoints THEN RegressionY ELSE RawY,
                           result.slope, result.rSquared)

\* [90, null, 110] and its like: a gap between two valid entries and a slope
\* that is the rise over the original distance.
C1_Witness ==
  /\ Done
  /\ \E i, k \in ValidPositions :
       /\ k = i + 2
       /\ values[i + 1] = NULL
       /\ NumValid = 2
       /\ values[i] # values[k]
       /\ result.slope = RDiv(RSub(values[k], values[i]), R(2))
       /\ result.rSquared = R(1)

-----------------------------------------------------------------------------
(* C2 *)

RawYSeq == [k \in 1..NumValid |-> regression.indexedValues[k].value]

\* C2: the regression values are the 5th/95th-percentile winsorized values
\* exactly when the number n of non-missing entries is at least 20; for
\* 2 <= n < 20 they are the raw values, and slope and rSquared are the fit
\* on the unmodified values.
C2_WinsorizedIffTwentyValid ==
  (Done /\ NumValid >= 2) =>
    IF NumValid >= 20
    THEN regression.winsorizedYValues = winsorize(RawYSeq, Rat(1, 20), Rat(19, 20))
    ELSE /\ regression.winsorizedYValues = RawYSeq
         /\ IsLeastSquaresFit(RawY, result.slope, result.rSquared)

\* Exactly 20 valid entries in a longer input, and winsorization changed one.
C2_Witness ==
  /\ Done
  /\ NumValid = 20
  /\ Len(values) > 20
  /\ regression.winsorizedYValues # RawYSeq
  /\ regression.winsorizedYValues = winsorize(RawYSeq, Rat(1, 20), Rat(19, 20))

-----------------------------------------------------------------------------
(* C3 *)

\* C3 as stated: coefficientOfVariation is absent if and only if the
\* returned mean is 0.
C3_Original ==
  Done => (result.coefficientOfVariation = NULL <=> result.mean = Zero)

\* C3 amended: coefficientOfVariation is absent if and only if the returned
\* mean is 0 or the input has exactly one non-missing entry.
C3_CvAbsentIffZeroMeanOrSingle ==
  Done => (result.coefficientOfVariation = NULL
             <=> (result.mean = Zero \/ NumValid = 1))

\* Two or more valid entries that cancel out ([-5, 5]): mean 0, no
\* coefficient of variation, although the values are spread.
C3_Witness ==
  /\ Done
  /\ NumValid >= 2
  /\ result.mean = Zero
  /\ result.standardDeviation # RootZero
  /\ result.coefficientOfVariation = NULL

-----------------------------------------------------------------------------
(* C4 *)

AllEqual(y) == \A i, j \in DOMAIN y : y[i] = y[j]

-----------------------------------------------------------------------------
(* C5 *)

SameSummary(r1, r2) ==
  /\ r1.mean = r2.mean
  /\ r1.standardDeviation = r2.standardDeviation
  /\ r1.coefficientOfVariation = r2.coefficientOfVariation
  /\ r1.slope = r2.slope
  /\ r1.rSquared = r2.rSquared

\* C5 as stated: any two input series with the same mean, standardDeviation,
\* coefficientOfVariation, slope and rSquared get the same volatility and
\* the same trend.
C5_Original ==
  Done =>
    \A other \in Inputs :
      SameSummary(computeLineChartAnalysis(other), result)
        => computeLineChartAnalysis(other).interpretation = result.interpretation

\* The classification written on the five summary fields only.
VolatilityFromSummary(r) ==
  IF r.coefficientOfVariation = NULL THEN "undefined"
  ELSE IF RootSign(r.coefficientOfVariation) <= 0 THEN "very_stable"
  ELSE IF RLt(RootSq(r.coefficientOfVariation), Rat(1, 100)) THEN "very_stable"
  ELSE IF RLt(RootSq(r.coefficientOfVariation), Rat(1, 16)) THEN "moderate"
  ELSE "volatile"

TrendFromSummary(r) ==
  LET rel == IF r.mean = Zero THEN Zero ELSE RDiv(RAbs(r.slope), r.mean)
  IN  IF r.standardDeviation = RootZero THEN "none"
      ELSE IF r.rSquared = NULL THEN "undefined"
      ELSE IF RLt(Rat(3, 4), r.rSquared) THEN "strong"
      ELSE IF RLt(Rat(2, 5), r.rSquared)
      THEN (IF RLe(Rat(6, 100), rel) THEN "strong" ELSE "weak")
      ELSE (IF RLe(Rat(3, 100), rel) THEN "weak" ELSE "none")

\* C5 amended: for inputs with at least 2 and fewer than 20 non-missing
\* entries the interpretation is a function of the summary alone:
\* volatility is VolatilityFromSummary and trend is TrendFromSummary of the
\* returned mean, standardDeviation, coefficientOfVariation, slope and
\* rSquared.
C5_InterpretationFromSummary ==
  (Done /\ NumValid >= 2 /\ NumValid < 20) =>
    /\ result.interpretation.volatility = VolatilityFromSummary(result)
    /\ result.interpretation.trend = TrendFromSummary(result)

\* A series whose trend was decided by the relative slope: base trend weak,
\* upgraded to strong.
C5_Witness ==
  /\ Done
  /\ NumValid >= 3
  /\ NumValid < 20
  /\ result.rSquared # NULL
  /\ RLt(Rat(2, 5), result.rSquared)
  /\ RLe(result.rSquared, Rat(3, 4))
  /\ result.interpretation.trend = "strong"
  /\ result.interpretation.trend = TrendFromSummary(result)

-----------------------------------------------------------------------------
(* C6 *)

\* |slope| over the mean of the regression values, 0 when that mean is 0.
RelSlope ==
  LET m == RDiv(SumOver(ValidPositions, RegressionY), R(NumValid))
  IN  IF m = Zero THEN Zero ELSE RDiv(RAbs(result.slope), m)

Trend == result.interpretation.trend

R2Above(t) == RLt(t, result.rSquared)

\* C6: with n >= 2, standardDeviation # 0 and rSquared defined, the trend is
\* 'strong' iff rSquared > 0.75, or 0.4 < rSquared <= 0.75 and
\* relativeSlope >= 0.06; 'weak' iff 0.4 < rSquared <= 0.75 and
\* relativeSlope < 0.06, or rSquared <= 0.4 and relativeSlope >= 0.03;
\* 'none' iff rSquared <= 0.4 and relativeSlope < 0.03.
C6_TrendTable ==
  (Done /\ NumValid >= 2 /\ result.standardDeviation # RootZero
        /\ result.rSquared # NULL) =>
    /\ Trend = "strong" <=>
         \/ R2Above(Rat(75, 100))
         \/ R2Above(Rat(4, 10)) /\ ~R2Above(Rat(75, 100)) /\ RLe(Rat(6, 100), RelSlope)
    /\ Trend = "weak" <=>
         \/ R2Above(Rat(4, 10)) /\ ~R2Above(Rat(75, 100)) /\ RLt(RelSlope, Rat(6, 100))
         \/ ~R2Above(Rat(4, 10)) /\ RLe(Rat(3, 100), RelSlope)
    /\ Trend = "none" <=>
         ~R2Above(Rat(4, 10)) /\ RLt(RelSlope, Rat(3, 100))

\* rSquared strictly between 0.4 and 0.75 with a positive relative slope
\* below 0.06: the trend stays weak.
C6_Witness ==
  /\ Done
  /\ NumValid >= 2
  /\ result.rSquared # NULL
  /\ R2Above(Rat(4, 10))
  /\ RLt(result.rSquared, Rat(75, 100))
  /\ RLt(Zero, RelSlope)
  /\ RLt(RelSlope, Rat(6, 100))
  /\ Trend = "weak"

-----------------------------------------------------------------------------
(* C7 *)

\* C7: the upgrade moves at most one step: a result with rSquared <= 0.4
\* never has trend 'strong', and a result with rSquared > 0.75 always has
\* trend 'strong'.
C7_UpgradeAtMostOneStep ==
  (Done /\ result.rSquared # NULL) =>
    /\ RLe(result.rSquared, Rat(4, 10)) => Trend # "strong"
    /\ RLt(Rat(75, 100), result.rSquared) => Trend = "strong"

\* rSquared <= 0.4 with a relative slope of 0.06 or more: upgraded to weak,
\* not to strong.
C7_Witness ==
  /\ Done
  /\ NumValid >= 2
  /\ result.rSquared # NULL
  /\ RLe(result.rSquared, Rat(4, 10))
  /\ RLe(Rat(6, 100), RelSlope)
  /\ Trend = "weak"

-----------------------------------------------------------------------------
(* C8 *)

Cv == result.coefficientOfVariation

Volatility == result.interpretation.volatility

-----------------------------------------------------------------------------
(* C9 *)

\* C9: an input without a non-missing entry (empty, or only missing entries)
\* returns mean 0, standardDeviation 0, coefficientOfVariation absent,
\* slope 0, rSquared absent, volatility 'undefined', trend 'undefined'.
C9_NoValidEntry ==
  (Done /\ NumValid = 0) =>
    result = [mean |-> Zero, standardDeviation |-> RootZero,
              coefficientOfVariation |-> NULL, slope |-> Zero, rSquared |-> NULL,
              interpretation |-> [volatility |-> "undefined", trend |-> "undefined"]]

\* An input of two or more entries, all missing.
C9_Witness ==
  /\ Done
  /\ Len(values) >= 2
  /\ NumValid = 0
  /\ result.interpretation.trend = "undefined"

-----------------------------------------------------------------------------
(* C10 *)

\* C10: an input with exactly one non-missing entry v, wherever it stands,
\* returns mean v, standardDeviation 0, coefficientOfVariation absent,
\* slope 0, rSquared absent, volatility 'very_stable', trend 'none'.
C10_SingleValidEntry ==
  (Done /\ NumValid = 1) =>
    \A i \in ValidPositions :
      result = [mean |-> values[i], standardDeviation |-> RootZero,
                coefficientOfVariation |-> NULL, slope |-> Zero, rSquared |-> NULL,
                interpretation |-> [volatility |-> "very_stable", trend |-> "none"]]

\* A single non-zero value between two missing entries.
C10_Witness ==
  /\ Done
  /\ Len(values) = 3
  /\ ValidPositions = {2}
  /\ values[2] # Zero
  /\ result.mean = values[2]
  /\ result.interpretation.volatility = "very_stable"

-----------------------------------------------------------------------------
(* C11 *)

-----------------------------------------------------------------------------
(* C12 *)

\* A number is finite when its denominator is not 0 (see RDiv).
Finite(p) == p # NULL /\ p[2] > 0

FiniteRoot(s) == s # NULL /\ Finite(RootSq(s))

\* The quotients the n >= 2 path computes, each the result of one division
\* of the code: mean, variance (under the root of standardDeviation),
\* coefficientOfVariation, slope, meanY, intercept, rSquared
\* (1 - ssResidual / ssTotal), robustMeanY and relativeSlope.
QuotientsFinite ==
  /\ Finite(regression.mean)
  /\ FiniteRoot(regression.standardDeviation)
  /\ regression.coefficientOfVariation # NULL =>
       FiniteRoot(regression.coefficientOfVariation)
  /\ Finite(regression.slope)
  /\ Finite(regression.meanY)
  /\ Finite(regression.intercept)
  /\ regression.rSquared # NULL => Finite(regression.rSquared)
  /\ Finite(regression.robustMeanY)
  /\ Finite(regression.relativeSlope)

-----------------------------------------------------------------------------
(* C13, C14 *)

WinsorizeDone == pc = "done" /\ fn = "winsorize"

IsAscending(s) == \A i, j \in 1..Len(s) : i <= j => RLe(s[i], s[j])

Count(s, x) == Cardinality({i \in 1..Len(s) : s[i] = x})

IsPermutation(s, t) ==
  /\ Len(s) = Len(t)
  /\ \A i \in 1..Len(s) : Count(s, s[i]) = Count(t, s[i])

\* The bounds of the winsorize call: the quantiles of the sorted copy.
LowerBound == quantile(allocated[1], args[1])

UpperBound == quantile(allocated[1], args[2])

\* C13 as stated: for every pair lq, uq each element of the result lies
\* in [quantile(sorted(v), lq), quantile(sorted(v), uq)].
C13_Original ==
  WinsorizeDone =>
    \A i \in 1..Len(result) :
      RLe(LowerBound, result[i]) /\ RLe(result[i], UpperBound)

\* C13 amended: for lq <= uq each element of winsorize(v, lq, uq) lies in
\* the closed interval [quantile(sorted(v), lq), quantile(sorted(v), uq)].
C13_WithinBoundsWhenOrdered ==
  (WinsorizeDone /\ RLe(args[1], args[2])) =>
    \A i \in 1..Len(result) :
      RLe(LowerBound, result[i]) /\ RLe(result[i], UpperBound)

\* Quartile bounds strictly inside the range of the values: one element is
\* raised to the lower bound and one is lowered to the upper bound.
C13_Witness ==
  /\ WinsorizeDone
  /\ RLt(args[1], args[2])
  /\ \E i, j \in 1..Len(values) :
       /\ RLt(values[i], LowerBound) /\ result[i] = LowerBound
       /\ RLt(UpperBound, values[j]) /\ result[j] = UpperBound

\* C14: winsorize keeps length and positions.  The bounds are the
\* quantiles of an ascending copy of v, the result is as long as v, and its
\* i-th element is v[i] clamped: the lower bound when v[i] is below it,
\* else the upper bound when v[i] is above it, else v[i] itself.
C14_LengthAndPositionsKept ==
  WinsorizeDone =>
    /\ IsAscending(allocated[1])
    /\ IsPermutation(allocated[1], values)
    /\ Len(result) = Len(values)
    /\ \A i \in 1..Len(values) :
         /\ RLt(values[i], LowerBound) => result[i] = LowerBound
         /\ (~RLt(values[i], LowerBound) /\ RLt(UpperBound, values[i])) =>
              result[i] = UpperBound
         /\ (RLe(LowerBound, values[i]) /\ RLe(values[i], UpperBound)) =>
              result[i] = values[i]

\* An array that is not ascending, with one element clamped and another
\* returned unchanged at its own position.
C14_Witness ==
  /\ WinsorizeDone
  /\ ~IsAscending(values)
  /\ \E i, j \in 1..Len(values) :
       /\ result[i] # values[i]
       /\ result[j] = values[j]
       /\ values[i] # values[j]

-----------------------------------------------------------------------------
(* C15, C16 *)

QuantileDone == pc = "done" /\ fn = "quantile"

\* The fraction q of the call.
Q == args[1]

\* With q = a / b and n = Len(values), the position p = (n - 1) * q is
\* PositionTimesB / b: its floor is PositionTimesB \div b and its
\* fractional part is (PositionTimesB % b) / b.
PositionTimesB == (Len(values) - 1) * Q[1]

FloorP == PositionTimesB \div Q[2]

CeilP == IF PositionTimesB % Q[2] = 0 THEN FloorP ELSE FloorP + 1

\* s[floor(p)] + (s[ceil(p)] - s[floor(p)]) * (p - floor(p)), the indices
\* being 0-based.
Interpolated ==
  RAdd(values[FloorP + 1],
       RMul(RSub(values[CeilP + 1], values[FloorP + 1]),
            Rat(PositionTimesB % Q[2], Q[2])))

\* C15: for a non-empty ascending array and 0 < q < 1, quantile is the
\* linear interpolation at p = (n - 1) * q.  It lies between s[floor(p)]
\* and s[ceil(p)], it is s[p] when p is an integer, and it does not
\* decrease when q grows.
C15_QuantileInterpolates ==
  (QuantileDone /\ Len(values) > 0 /\ IsAscending(values)
     /\ RLt(Zero, Q) /\ RLt(Q, R(1))) =>
    /\ result = Interpolated
    /\ RLe(values[FloorP + 1], result) /\ RLe(result, values[CeilP + 1])
    /\ PositionTimesB % Q[2] = 0 => result = values[FloorP + 1]
    /\ \A q2 \in QuantileValues :
         (RLe(Q, q2) /\ RLt(q2, R(1))) => RLe(result, quantile(values, q2))

\* An ascending array and a position strictly between two indices that
\* hold different values, not half way: the result is strictly between.
C15_Witness ==
  /\ QuantileDone
  /\ Len(values) >= 2
  /\ IsAscending(values)
  /\ RLt(Zero, Q) /\ RLt(Q, R(1))
  /\ PositionTimesB % Q[2] # 0
  /\ 2 * (PositionTimesB % Q[2]) # Q[2]
  /\ RLt(values[FloorP + 1], result)
  /\ RLt(result, values[CeilP + 1])

\* C16: quantile answers its edge inputs with a value: 0 for an empty
\* array whatever q is; for a non-empty array the first element for every
\* q <= 0 and the last element for every q >= 1; for a single element
\* that element for every q.
C16_QuantileEdges ==
  QuantileDone =>
    /\ Len(values) = 0 => result = Zero
    /\ (Len(values) > 0 /\ RLe(Q, Zero)) => result = values[1]
    /\ (Len(values) > 0 /\ RLe(R(1), Q)) => result = values[Len(values)]
    /\ Len(values) = 1 => result = values[1]

\* q above 1 on an array whose first and last elements differ.
C16_Witness ==
  /\ QuantileDone
  /\ Len(values) >= 2
  /\ RLt(R(1), Q)
  /\ values[1] # values[Len(values)]
  /\ result = values[Len(values)]

-----------------------------------------------------------------------------
(* C17, C18 *)

ChunkDone == pc = "done" /\ fn = "chunkIntoWeeks"

WeeklyDone == pc = "done" /\ fn = "buildWeeklyEvolutionFromDaily"

RECURSIVE Flatten(_)
Flatten(chunks) ==
  IF chunks = <<>> THEN <<>> ELSE Head(chunks) \o Flatten(Tail(chunks))

\* ceil(n / size) for size >= 1.
CeilDiv(n, size) == (n + size - 1) \div size

Min(a, b) == IF a < b THEN a ELSE b

\* C17: chunkIntoWeeks(items, weekSize) with weekSize >= 1 cuts items into
\* contiguous slices in input order.  The chunks concatenated are items,
\* the j-th element of the k-th chunk is the item at (k - 1) * weekSize + j,
\* there are ceil(length / weekSize) chunks, each but the last has
\* weekSize elements, the last has 1 to weekSize, none is empty, and an
\* empty input gives no chunk.
C17_ChunksPartitionInOrder ==
  ChunkDone =>
    LET weekSize == args[1]
        n        == Len(values)
        count    == Len(result)
    IN  /\ Flatten(result) = values
        /\ count = CeilDiv(n, weekSize)
        /\ \A k \in 1..count :
             /\ Len(result[k]) >= 1
             /\ Len(result[k]) <= weekSize
             /\ k < count => Len(result[k]) = weekSize
             /\ \A j \in 1..Len(result[k]) :
                  result[k][j] = values[(k - 1) * weekSize + j]
        /\ n = 0 => result = <<>>

\* A length that is not a multiple of weekSize: full chunks, then a
\* shorter last one.
C17_Witness ==
  /\ ChunkDone
  /\ Len(values) % args[1] # 0
  /\ Len(result) >= 3
  /\ Len(result[1]) = args[1]
  /\ Len(result[1]) >= 2
  /\ Len(result[Len(result)]) < args[1]

\* The 1-based positions of the days of week w (w = 1, 2, ...).
DaysOfWeek(w) ==
  ((w - 1) * DaysPerWeek + 1) .. Min(w * DaysPerWeek, Len(values))

DownloadsAt == [i \in 1..Len(values) |-> values[i].downloads]

\* C18: buildWeeklyEvolutionFromDaily returns one bucket per chunk of 7
\* days, in order: weekStart is the day of the chunk's first item, weekEnd
\* the day of its last item, downloads the sum of its downloads.  The
\* buckets add up to the total of all days, and an empty series gives an
\* empty result.
C18_WeeklyBuckets ==
  WeeklyDone =>
    /\ Len(result) = CeilDiv(Len(values), DaysPerWeek)
    /\ \A w \in 1..Len(result) :
         /\ result[w].weekStart = values[(w - 1) * DaysPerWeek + 1].day
         /\ result[w].weekEnd = values[Min(w * DaysPerWeek, Len(values))].day
         /\ result[w].downloads = SumOver(DaysOfWeek(w), DownloadsAt)
    /\ SumOver(1..Len(result), [w \in 1..Len(result) |-> result[w].downloads])
         = SumOver(1..Len(values), DownloadsAt)
    /\ Len(values) = 0 => result = <<>>

\* Nine days: a bucket of 7 and a bucket of 2, both with downloads.
C18_Witness ==
  /\ WeeklyDone
  /\ Len(values) = 9
  /\ Len(result) = 2
  /\ result[1].weekStart = DayNames[1] /\ result[1].weekEnd = DayNames[7]
  /\ result[2].weekStart = DayNames[8] /\ result[2].weekEnd = DayNames[9]
  /\ result[1].downloads # Zero
  /\ result[2].downloads # Zero
  /\ result[1].downloads # result[2].downloads

-----------------------------------------------------------------------------
(* C19 *)

\* The functions that return an array or an object.
ReturnsReference ==
  fn \in {"winsorize", "chunkIntoWeeks", "buildWeeklyEvolutionFromDaily",
          "computeLineChartAnalysis"}

\* The returned array or object is one the call allocated.
ReturnedIsFresh ==
  /\ returned.kind = "allocation"
  /\ returned.at \in 1..Len(allocated)
  /\ allocated[returned.at] = result

\* C19: no call changes its argument.  Across every call of quantile,
\* winsorize, chunkIntoWeeks, buildWeeklyEvolutionFromDaily and
\* computeLineChartAnalysis the caller's array keeps its length and its
\* elements in their order, and a returned array or object is newly
\* allocated by the call.
C19_ArgumentsUntouched ==
  [][ /\ values' = values
      /\ ReturnsReference' => ReturnedIsFresh' ]_vars

\* winsorize on an array that is not ascending: sorting it in place would
\* have changed it, and the result differs from it.
C19_Witness ==
  /\ WinsorizeDone
  /\ ~IsAscending(values)
  /\ result # values
  /\ ReturnedIsFresh

-----------------------------------------------------------------------------
(* C20 *)

-----------------------------------------------------------------------------
(* C21 *)

\* The sum of the raw non-missing values over their number.
PopulationMean == RDiv(SumOver(ValidPositions, RawY), R(NumValid))

\* The mean squared distance of the raw values to PopulationMean.
PopulationVariance ==
  RDiv(SumOver(ValidPositions,
               [i \in ValidPositions |-> Sq(RSub(values[i], PopulationMean))]),
       R(NumValid))

\* C21: with n >= 2, mean, standardDeviation and coefficientOfVariation are
\* the population statistics (divisor n) of the raw non-missing values, and
\* the volatility is the class of that coefficient; winsorized values are
\* never used for them, also from 20 valid entries on.
C21_PopulationStatisticsOfRawValues ==
  (Done /\ NumValid >= 2) =>
    /\ result.mean = PopulationMean
    /\ RootSign(result.standardDeviation) >= 0
    /\ RootSq(result.standardDeviation) = PopulationVariance
    /\ IF PopulationMean = Zero THEN Cv = NULL
       ELSE /\ Cv # NULL
            /\ RMul(RootSq(Cv), Sq(PopulationMean)) = PopulationVariance
            /\ RootSign(Cv) = RSign(PopulationVariance) * RSign(PopulationMean)
    /\ Volatility = VolatilityFromSummary([coefficientOfVariation |-> Cv])

\* 20 or more valid entries with an outlier that the regression clamps: the
\* returned mean is not the mean of the regression values.
C21_Witness ==
  /\ Done
  /\ NumValid >= WinsorizeMinPoints
  /\ regression.winsorizedYValues # regression.originalYValues
  /\ result.mean = PopulationMean
  /\ result.mean # RDiv(SumOver(ValidPositions, RegressionY), R(NumValid))

-----------------------------------------------------------------------------
(* C22 *)

ClampDone == pc = "done" /\ fn = "clamp"

\* p lies in the closed interval [lo, hi].
Within(p, lo, hi) == RLe(lo, p) /\ RLe(p, hi)

\* C22: clamp(v, lo, hi) is lo when v < lo, otherwise hi when v > hi,
\* otherwise v.  For lo <= hi the result lies in [lo, hi], it is v exactly
\* when v lies in [lo, hi], and clamping the result again returns it.
C22_ClampContract ==
  ClampDone =>
    LET v  == args[1]
        lo == args[2]
        hi == args[3]
    IN  /\ result = IF RLt(v, lo) THEN lo ELSE IF RLt(hi, v) THEN hi ELSE v
        /\ RLe(lo, hi) =>
             /\ Within(result, lo, hi)
             /\ result = v <=> Within(v, lo, hi)
             /\ clampCall(result, lo, hi).result = result

\* clamp(0.5, 0.5, 1.5) and its like: a value on the lower bound of a proper
\* interval comes back unchanged.
C22_Witness ==
  /\ ClampDone
  /\ args[1] = args[2]
  /\ RLt(args[2], args[3])
  /\ args[1] = Rat(1, 2)
  /\ result = args[1]

-----------------------------------------------------------------------------
(* C23 *)

\* n * sum(x^2) - (sum x)^2 over the 0-based positions of the non-missing
\* entries, read off the input.
DenominatorOfInput ==
  LET x == [i \in ValidPositions |-> R(i - 1)]
  IN  RSub(RMul(R(NumValid), SumOver(ValidPositions, [i \in ValidPositions |-> Sq(x[i])])),
           Sq(SumOver(ValidPositions, x)))

-----------------------------------------------------------------------------
(* C24 *)

VersionsDone ==
  pc = "done" /\ fn = "createAltTextForVersionsBarChart" /\ args[1] # NULL

\* The downloads of the entry at position i of the series, a missing entry
\* counting as 0.
DownloadsOfBar(i) == IF values[i] = NULL THEN Zero ELSE values[i]

\* The first position, in input order, that attains the maximum.
FirstMaximum ==
  CHOOSE i \in 1..Len(values) :
    /\ \A j \in 1..Len(values) : RLe(DownloadsOfBar(j), DownloadsOfBar(i))
    /\ \A j \in 1..(i - 1) : RLt(DownloadsOfBar(j), DownloadsOfBar(i))

\* The position of the series that the j-th per-version item stands for:
\* the positions from the last to the first, FirstMaximum left out.
PositionOfItem(j) ==
  LET p == Len(values) + 1 - j
  IN  IF p > FirstMaximum THEN p ELSE p - 1

LabelOfBar(i) ==
  IF i \in DOMAIN args[2].datapointLabels THEN args[2].datapointLabels[i] ELSE "-"

\* C24: createAltTextForVersionsBarChart reads a missing value as 0, takes
\* as most-downloaded version the first entry in input order that attains
\* the maximum, and builds per_version_analysis from all other entries in
\* reverse input order: a series of k >= 1 values gives k - 1 items, also
\* when several entries tie for the maximum.
C24_VersionsBarChart ==
  (VersionsDone /\ Len(values) >= 1) =>
    LET named == result[1].named
    IN  /\ \A i \in 1..Len(values) :
             /\ locals.versions[i].rawDownloads = DownloadsOfBar(i)
             /\ locals.versions[i].downloads = <<[formatted |-> DownloadsOfBar(i)]>>
        /\ locals.versionWithMaxDownloads.index = FirstMaximum - 1
        /\ named.max_downloaded_version = LabelOfBar(FirstMaximum)
        /\ named.max_version_downloads = <<[formatted |-> DownloadsOfBar(FirstMaximum)]>>
        /\ Len(locals.perVersionItems) = Len(values) - 1
        /\ \A j \in 1..(Len(values) - 1) :
             locals.perVersionItems[j] =
               <<[key   |-> "package.versions.copy_alt.per_version_analysis",
                  named |-> [version   |-> LabelOfBar(PositionOfItem(j)),
                             downloads |-> <<[formatted |->
                                                DownloadsOfBar(PositionOfItem(j))]>>]]>>
        /\ named.per_version_analysis = join(locals.perVersionItems)

\* [5, null, 5]: two entries tie for the maximum and one is missing; the
\* first is chosen, and the other two are listed, last entry first.
C24_Witness ==
  /\ VersionsDone
  /\ values = <<R(5), NULL, R(5)>>
  /\ Len(args[2].datapointLabels) >= 3
  /\ locals.versionWithMaxDownloads.index = 0
  /\ Len(locals.perVersionItems) = 2
  /\ locals.perVersionItems[1][1].named.version = "v3"
  /\ locals.perVersionItems[2][1].named = [version |-> "v2", downloads |-> <<[formatted |-> Zero]>>]

-----------------------------------------------------------------------------
(* C25 *)

CopyCalled ==
  /\ fn \in {"copyAltTextForTrendLineChart", "copyAltTextForVersionsBarChart"}
  /\ pc # "ready"

\* The text the matching createAltText function returns for the arguments
\* of the call.
MatchingAltText ==
  IF fn = "copyAltTextForTrendLineChart"
  THEN createAltTextForTrendLineChart(args[1], args[2])
  ELSE createAltTextForVersionsBarChart(args[1], args[2])

Settled(p) == p \in {"fulfilled", "rejected"}

\* C25: copyAltTextForTrendLineChart and copyAltTextForVersionsBarChart call
\* config.copy exactly once per invocation, with the text the matching
\* createAltText function returns for the same dataset and config (the
\* empty text for a null dataset), and the promise they return settles only
\* after the promise of config.copy has settled.
C25_CopyOnceThenSettle ==
  CopyCalled =>
    /\ copyCalls = <<MatchingAltText>>
    /\ args[1] = NULL => copyCalls = <<EmptyText>>
    /\ Settled(promise) => Settled(copyPromise)

\* A dataset of two lines: config.copy got the comparison text, its promise
\* was rejected, and the returned promise settled afterwards.
C25_Witness ==
  /\ CopyCalled
  /\ fn = "copyAltTextForTrendLineChart"
  /\ args[1] # NULL
  /\ Len(args[1].lines) = 2
  /\ Len(copyCalls) = 1
  /\ copyCalls[1][1].key = "package.trends.copy_alt.compare"
  /\ copyPromise = "rejected"
  /\ promise = "rejected"
  /\ pc = "done"

-----------------------------------------------------------------------------
(* C26 *)

SyncDone == pc = "done" /\ fn = "sync"

\* The records of the PDS that belong to the post of file i.
RecordsOfPost(i) == {r \in pds : r.value.path = posts[i].path}

\* getRecord found the record of the post of file i under the record key
\* derived from its date.
FoundOwnRecord(i) ==
  /\ results[i].response # NULL
  /\ results[i].response.success
  /\ \E r \in RecordsOfPost(i) : r.rkey = generateTID(posts[i].date, Files[i])

\* C26: when a build processes a post whose document record already exists
\* on the PDS, the record is updated: after the build the post has exactly
\* one record, and it is the document built from the post as it is now.
C26_ExistingRecordIsUpdated ==
  SyncDone =>
    \A i \in DOMAIN posts :
      FoundOwnRecord(i) =>
        RecordsOfPost(i) =
          {[rkey  |-> generateTID(posts[i].date, Files[i]),
            value |-> buildATProtoDocument(NPMX_SITE, posts[i])]}

-----------------------------------------------------------------------------
(* C27 *)

-----------------------------------------------------------------------------
(* C28 *)

\* C28: the volatility thresholds are applied to the signed ratio
\* standardDeviation / mean: with two or more non-missing entries and a
\* negative mean, coefficientOfVariation is <= 0 and the volatility is
\* 'very_stable', however far the values are spread.
C28_NegativeMeanIsVeryStable ==
  (Done /\ NumValid >= 2 /\ RLt(PopulationMean, Zero)) =>
    /\ Cv # NULL
    /\ RootSign(Cv) <= 0
    /\ RootSign(Cv) = -RootSign(result.standardDeviation)
    /\ RMul(RootSq(Cv), Sq(PopulationMean)) = RootSq(result.standardDeviation)
    /\ Volatility = "very_stable"

\* A negative mean with a deviation of more than a quarter of its size
\* ([-5, -5, 0]), which would be 'volatile' by its absolute value.
C28_Witness ==
  /\ Done
  /\ NumValid >= 2
  /\ RLt(result.mean, Zero)
  /\ Cv # NULL
  /\ RootSign(Cv) < 0
  /\ RLe(Rat(1, 16), RootSq(Cv))
  /\ Volatility = "very_stable"

-----------------------------------------------------------------------------
(* C29 *)

\* The call of the loop has returned.
LoopDone == pc = "done"

\* C29: chunkIntoWeeks terminates for every array when weekSize >= 1, after
\* ceil(length / weekSize) iterations.  With a non-empty array and
\* weekSize <= 0 the index never reaches the length: the call never
\* returns, and result grows for as long as the loop is followed.
C29_TerminatesIffWeekSizePositive ==
  /\ args[1] >= 1 =>
       <>(LoopDone /\ args[1] >= 1 /\ Len(result) = CeilDiv(Len(values), args[1]))
  /\ (args[1] <= 0 /\ Len(values) > 0) =>
       /\ [](~LoopDone /\ index < Len(values))
       /\ <>(Len(result) = MaxIterations)
  /\ [][(args[1] <= 0 /\ Len(values) > 0) => Len(result') = Len(result) + 1]_vars

\* Three items and weekSize -1: after MaxIterations iterations the index is
\* far below 0 and the loop is still running.
C29_Witness ==
  /\ pc = "loop"
  /\ fn = "chunkIntoWeeks"
  /\ Len(values) = 3
  /\ args[1] = -1
  /\ Len(result) = MaxIterations
  /\ index = -MaxIterations

-----------------------------------------------------------------------------
(* computeLineChartAnalysis in the doubles of the engine: the specification *)
(* whose one action calls it on a series of small counts.                  *)

\* Bounds of the series analysed in doubles.
MaxPoints == 4
MaxShift == 2

\* An entry of the series: missing, or a small count.
DoubleValues == {NULL, R(0), R(1), R(2)}

DoubleSeries == UNION {[1..n -> DoubleValues] : n \in 0..MaxPoints}

DoubleInit ==
  /\ fn = "computeLineChartAnalysis" /\ values \in DoubleSeries /\ args = <<>>
  /\ pc = "ready" /\ result = NoResult /\ index = 0 /\ regression = NoResult
  /\ locals = NoResult /\ allocated = <<>> /\ returned = ByValue
  /\ copyCalls = <<>> /\ copyPromise = "none" /\ promise = "none"
  /\ posts = <<>> /\ pds = {} /\ pending = {} /\ results = <<>>
  /\ documentsToSync = <<>>

\* The call, computed as the engine computes it.
AnalyseInDoubles ==
  /\ pc = "ready" /\ fn = "computeLineChartAnalysis"
  /\ pc' = "done"
  /\ result' = computeLineChartAnalysis64(values)
  /\ UNCHANGED <<values, regression, fn, args, allocated, returned, locals,
                 copyVars, syncVars, index>>

DoubleNext == AnalyseInDoubles

DoubleSpec == DoubleInit /\ [][DoubleNext]_vars

\* The series with k missing entries before it, and after it.
Prepended(series, k) == [i \in 1..k |-> NULL] \o series
Appended(series, k) == series \o [i \in 1..k |-> NULL]

\* C30: missing entries put before or after a series, which move the indices
\* of its points by a constant or not at all, leave the mean, the standard
\* deviation, the coefficient of variation, the slope, rSquared, the
\* volatility and the trend of the analysis as they were.
C30_MissingEntriesOutsideTheSeriesChangeNothing ==
  (pc = "done" /\ fn = "computeLineChartAnalysis") =>
    \A k \in 0..MaxShift :
      /\ computeLineChartAnalysis64(Prepended(values, k)) = result
      /\ computeLineChartAnalysis64(Appended(values, k)) = result

====
